---- MODULE Spec2Model ----
(***************************************************************************)
(* Model of the egalax-rs touchscreen driver: the gesture state machine of *)
(* Driver::update (src/src/driver.rs), the range arithmetic it maps        *)
(* coordinates with (egalax-rs/src/geo.rs, units.rs) and the packet        *)
(* decoder USBPacket::try_parse (egalax-rs/src/protocol.rs).               *)
(***************************************************************************)
EXTENDS Integers, Sequences, FiniteSets, TLC

(***************************************************************************)
(* Bounds of the model.                                                    *)
(***************************************************************************)
\* number of packets handed to the driver in one behaviour
MaxSteps == 4
\* the frames the reader thread of the calibrator reads
MaxFrames == 8
\* the messages waiting in the packet channel of the calibrator
MaxQueue == 2
MaxOps == 3
MaxMoves == 2

(***************************************************************************)
(* Program constants.                                                      *)
(***************************************************************************)
HAS_MOVED_THRESHOLD == 30
\* milliseconds
RIGHT_CLICK_THRESHOLD == 1500
RAW_PACKET_LEN == 6
TOUCH_STATE_MASK == 1
RESOLUTION_MASK == 6
\* PacketTag::TouchEvent
TouchEvent == 2

BTN_LEFT == "BTN_TOUCH"
BTN_RIGHT == "BTN_STYLUS2"

\* Option<T>: None is the empty tuple, Some(v) the one-element tuple
None == << >>
Some(v) == <<v>>
unwrap(o) == o[1]
IsTouching == "IsTouching"
NotTouching == "NotTouching"
TouchState == {IsTouching, NotTouching}

(***************************************************************************)
(* units.rs / geo.rs: axis scalars are i32 and factors are f32.  An f32 is *)
(* the record [m, e] for m * 2^-e, with m = 0 or 2^23 <= |m| < 2^24; every *)
(* f32 operation rounds its exact result to 24 significant bits, to        *)
(* nearest and ties to even.  Scalars are below 2^15 in magnitude, so that *)
(* every intermediate value fits the integers of the checker.              *)
(***************************************************************************)
Min2(a, b) == IF a <= b THEN a ELSE b
Max2(a, b) == IF a >= b THEN a ELSE b
Abs(a) == IF a < 0 THEN -a ELSE a

\* `as UdimRepr` of a float: truncation toward zero
Trunc(num, den) == IF num >= 0 THEN num \div den ELSE -((-num) \div den)

\* impl Mul<f32> for udim<D>, for a factor n/d that f32 holds exactly and a
\* product below 2^24
udim_mul(v, t) == Trunc(v * t.n, t.d)

\* Op applied to the value of v, with v evaluated once
Eval(v, Op(_)) == CHOOSE r \in {Op(x) : x \in {v}} : TRUE

\* the number of bits of q >= 0
RECURSIVE BitLen(_)
BitLen(q) ==
    IF q >= 4096 THEN 12 + BitLen(q \div 4096)
    ELSE IF q >= 64 THEN 6 + BitLen(q \div 64)
    ELSE IF q >= 8 THEN 3 + BitLen(q \div 8)
    ELSE IF q >= 4 THEN 3
    ELSE IF q >= 2 THEN 2
    ELSE q

F32_ZERO == [m |-> 0, e |-> 0]
F32_HALF == [m |-> 8388608, e |-> 24]

\* the f32 nearest to sign * (I + f) * 2^-e, where I >= 0 and 0 < f < 1 if
\* sticky, f = 0 if not (I has 26 bits or more when sticky)
f32_round(sign, I, sticky, e) ==
    Eval(I, LAMBDA i : Eval(BitLen(i), LAMBDA L :
        LET d == L - 24
            q == i \div (2 ^ d)
            r == i % (2 ^ d)
            half == 2 ^ (d - 1)
            up == r > half \/ (r = half /\ (sticky \/ q % 2 = 1))
        IN IF i = 0 THEN F32_ZERO
           ELSE IF L <= 24 THEN [m |-> sign * i * (2 ^ (24 - L)), e |-> e + 24 - L]
           ELSE IF ~up THEN [m |-> sign * q, e |-> e - d]
           ELSE IF q + 1 = 16777216 THEN [m |-> sign * 8388608, e |-> e - d - 1]
           ELSE [m |-> sign * (q + 1), e |-> e - d]))

\* the bits of a quotient by long division, up to 14 at a time, until it
\* has 26 of them (q0 the bits so far, r0 < b < 2^16 the remainder, k the
\* number of bits after the binary point)
RECURSIVE div_bits(_, _, _, _)
div_bits(q0, r0, b, k) ==
    Eval(q0, LAMBDA q :
        IF q >= 33554432 THEN [q |-> q, r |-> r0, k |-> k]
        ELSE Eval(Min2(14, 26 - BitLen(q)), LAMBDA c :
             Eval(r0 * (2 ^ c), LAMBDA R :
                div_bits(q * (2 ^ c) + (R \div b), R % b, b, k + c))))

\* a.float() / b.float() for integers a and b /= 0
f32_div(a, b) ==
    IF a = 0 THEN F32_ZERO
    ELSE Eval(Abs(a), LAMBDA p : Eval(Abs(b), LAMBDA n :
         Eval(div_bits(p \div n, p % n, n, 0), LAMBDA x :
            f32_round(IF (a < 0) = (b < 0) THEN 1 ELSE -1, x.q, x.r /= 0, x.k))))

\* 1.0 - t
f32_one_minus(t) ==
    Eval(t, LAMBDA u :
        IF u.e <= 26
        THEN Eval((2 ^ u.e) - u.m, LAMBDA D :
                f32_round(IF D < 0 THEN -1 ELSE 1, Abs(D), FALSE, u.e))
        ELSE LET s == u.e - 26
                 M == Abs(u.m) \div (2 ^ s)
                 sticky == Abs(u.m) % (2 ^ s) /= 0
             IN IF u.m > 0
                THEN f32_round(1, 67108864 - M - (IF sticky THEN 1 ELSE 0), sticky, 26)
                ELSE f32_round(1, 67108864 + M, sticky, 26))

\* impl Mul<f32> for udim<D>: (v as f32 * c) as UdimRepr.  The exact product
\* |v| * |c.m| is H * 2^12 + Lo; it is rounded to 24 bits (kept, with rem
\* the d bits dropped), then truncated.
udim_mul_f32(v, c) ==
    Eval(v, LAMBDA w : Eval(c, LAMBDA f :
    IF w = 0 \/ f.m = 0 THEN 0
    ELSE
    Eval(Abs(w) * (Abs(f.m) % 4096), LAMBDA X :
    Eval(Abs(w) * (Abs(f.m) \div 4096) + (X \div 4096), LAMBDA H :
    Eval(IF H = 0 THEN BitLen(X % 4096) ELSE BitLen(H) + 12, LAMBDA L :
        LET Lo == X % 4096
            d == IF L <= 24 THEN 0 ELSE L - 24
        IN
    Eval(IF d <= 12 THEN H * (2 ^ (12 - d)) + (Lo \div (2 ^ d))
         ELSE H \div (2 ^ (d - 12)), LAMBDA kept :
    Eval(IF d <= 12 THEN Lo % (2 ^ d)
         ELSE (H % (2 ^ (d - 12))) * 4096 + Lo, LAMBDA rem :
        LET up == d > 0 /\ (rem > 2 ^ (d - 1) \/ (rem = 2 ^ (d - 1) /\ kept % 2 = 1))
            kept1 == IF up THEN kept + 1 ELSE kept
            sh == f.e - d
        IN
    Eval(IF sh <= 0 THEN kept1 * (2 ^ (-sh))
         ELSE IF sh > 30 THEN 0
         ELSE kept1 \div (2 ^ sh), LAMBDA r :
        IF (w < 0) = (f.m < 0) THEN r ELSE -r))))))))

Range_new(x1, x2) == [min |-> Min2(x1, x2), max |-> Max2(x1, x2)]

linear_factor_one(self, x) ==
    IF self.max = self.min
    THEN [m |-> 8388608, e |-> 23]
    ELSE f32_div(x - self.min, self.max - self.min)

linear_factor(self, x) ==
    IF self.max = self.min
    THEN F32_ZERO
    ELSE f32_div(x - self.min, self.max - self.min)

lerp_swapped(self, t) ==
    Eval(t, LAMBDA u :
        udim_mul_f32(self.min, u) + udim_mul_f32(self.max, f32_one_minus(u)))

lerp(self, t) ==
    Eval(t, LAMBDA u :
        udim_mul_f32(self.min, f32_one_minus(u)) + udim_mul_f32(self.max, u))

AABB_new(x1, y1, x2, y2) ==
    [x1 |-> Min2(x1, x2), y1 |-> Min2(y1, y2), x2 |-> Max2(x1, x2), y2 |-> Max2(y1, y2)]

xrange(self) == Range_new(self.x1, self.x2)
yrange(self) == Range_new(self.y1, self.y2)

Point(x, y) == [x |-> x, y |-> y]

\* the square of Point::euc_distance_to; sqrt is monotone and exact on 30*30,
\* so d > 30.0 iff d*d > 900
euc_distance_to_sq(self, other) ==
    LET dx == Abs(other.x - self.x)
        dy == Abs(other.y - self.y)
    IN dx * dx + dy * dy

(***************************************************************************)
(* driver.rs: EventGen.  The moves go through Range::linear_factor and     *)
(* Range::lerp of egalax-rs/src/geo.rs.                                    *)
(***************************************************************************)
InputEvent(time, type, code, value) ==
    [time |-> time, type |-> type, code |-> code, value |-> value]

EventGen_new(time) == [time |-> time, events |-> << >>]

emit_btn_press(self, btn) ==
    [self EXCEPT !.events = Append(@, InputEvent(self.time, "EV_KEY", btn, 1))]

emit_btn_release(self, btn) ==
    [self EXCEPT !.events = Append(@, InputEvent(self.time, "EV_KEY", btn, 0))]

\* mutant: the X move clamped to monitor_area
emit_move_x_clamped(self, x, monitor_cfg) ==
    LET t == linear_factor(xrange(monitor_cfg.calibration_points), x)
        xm == lerp(xrange(monitor_cfg.monitor_area), t)
        xc == Min2(monitor_cfg.monitor_area.x2, Max2(monitor_cfg.monitor_area.x1, xm))
    IN [self EXCEPT !.events = Append(@, InputEvent(self.time, "EV_ABS", "ABS_X", xc))]

emit_move_x(self, x, monitor_cfg) ==
    LET t == linear_factor(xrange(monitor_cfg.calibration_points), x)
        xm == lerp(xrange(monitor_cfg.monitor_area), t)
    IN [self EXCEPT !.events = Append(@, InputEvent(self.time, "EV_ABS", "ABS_X", xm))]

emit_move_y(self, y, monitor_cfg) ==
    LET t == linear_factor(yrange(monitor_cfg.calibration_points), y)
        ym == lerp(yrange(monitor_cfg.monitor_area), t)
    IN [self EXCEPT !.events = Append(@, InputEvent(self.time, "EV_ABS", "ABS_Y", ym))]

emit_syn(self) ==
    [self EXCEPT !.events = Append(@, InputEvent(self.time, "EV_SYN", "SYN_REPORT", 0))]

finish(self) == emit_syn(self).events

(***************************************************************************)
(* driver.rs: DriverState                                                  *)
(***************************************************************************)
DriverState_default ==
    [touch_state |-> NotTouching,
     is_right_click |-> FALSE,
     has_moved |-> FALSE,
     p |-> Point(0, 0),
     touch_start_time |-> None,
     touch_origin |-> None]

\* mutant: reset that forgets to clear has_moved
reset_keep_moved(self) ==
    [self EXCEPT !.is_right_click = FALSE,
                 !.touch_start_time = None,
                 !.touch_origin = None]

reset(self) ==
    [self EXCEPT !.is_right_click = FALSE,
                 !.has_moved = FALSE,
                 !.touch_start_time = None,
                 !.touch_origin = None]

(***************************************************************************)
(* driver.rs: Driver::update.  Each arm of the match yields the new state, *)
(* the event generator and whether an unwrap() of None panicked.           *)
(***************************************************************************)
Arm(st, ev, panic) == [state |-> st, events |-> ev, panic |-> panic]

\* mutant: the release arm releases the right button whether or not a
\* right-click was started
update_release_both(st, ev) ==
    Arm(reset(st), emit_btn_release(emit_btn_release(ev, BTN_LEFT), BTN_RIGHT), FALSE)

\* mutant: the release arm never releases the right button
update_release_left_only(st, ev) ==
    Arm(reset(st), emit_btn_release(ev, BTN_LEFT), FALSE)

\* (IsTouching, NotTouching)
update_release(st, ev) ==
    LET e1 == emit_btn_release(ev, BTN_LEFT)
        e2 == IF st.is_right_click THEN emit_btn_release(e1, BTN_RIGHT) ELSE e1
    IN Arm(reset(st), e2, FALSE)

\* mutant: the start arm does not record the touch origin
update_start_no_origin(st, ev, packet, now) ==
    Arm([st EXCEPT !.touch_start_time = Some(now)],
        emit_btn_press(ev, BTN_LEFT), FALSE)

\* (NotTouching, IsTouching)
update_start(st, ev, packet, now) ==
    Arm([st EXCEPT !.touch_start_time = Some(now),
                   !.touch_origin = Some(Point(packet.x, packet.y))],
        emit_btn_press(ev, BTN_LEFT), FALSE)

\* mutant: the hold arm presses the right button without recording it
update_hold_no_flag(st, ev, packet, now) ==
    IF ~st.is_right_click /\ ~st.has_moved
    THEN IF euc_distance_to_sq(unwrap(st.touch_origin), Point(packet.x, packet.y))
               > HAS_MOVED_THRESHOLD * HAS_MOVED_THRESHOLD
         THEN Arm([st EXCEPT !.has_moved = TRUE], ev, FALSE)
         ELSE IF now - unwrap(st.touch_start_time) > RIGHT_CLICK_THRESHOLD
              THEN Arm(st, emit_btn_press(ev, BTN_RIGHT), FALSE)
              ELSE Arm(st, ev, FALSE)
    ELSE Arm(st, ev, FALSE)

\* mutant: the hold arm notices the drift but does not record it
update_hold_no_moved(st, ev, packet, now) ==
    IF ~st.is_right_click /\ ~st.has_moved
    THEN IF euc_distance_to_sq(unwrap(st.touch_origin), Point(packet.x, packet.y))
               > HAS_MOVED_THRESHOLD * HAS_MOVED_THRESHOLD
         THEN Arm(st, ev, FALSE)
         ELSE IF now - unwrap(st.touch_start_time) > RIGHT_CLICK_THRESHOLD
              THEN Arm([st EXCEPT !.is_right_click = TRUE],
                       emit_btn_press(ev, BTN_RIGHT), FALSE)
              ELSE Arm(st, ev, FALSE)
    ELSE Arm(st, ev, FALSE)

\* mutant: the hold arm tests the hold time before the drift
update_hold_time_first(st, ev, packet, now) ==
    IF ~st.is_right_click /\ ~st.has_moved
    THEN IF now - unwrap(st.touch_start_time) > RIGHT_CLICK_THRESHOLD
         THEN Arm([st EXCEPT !.is_right_click = TRUE],
                  emit_btn_press(ev, BTN_RIGHT), FALSE)
         ELSE IF euc_distance_to_sq(unwrap(st.touch_origin), Point(packet.x, packet.y))
                    > HAS_MOVED_THRESHOLD * HAS_MOVED_THRESHOLD
              THEN Arm([st EXCEPT !.has_moved = TRUE], ev, FALSE)
              ELSE Arm(st, ev, FALSE)
    ELSE Arm(st, ev, FALSE)

\* mutant: the hold arm moves the touch origin to the sample
update_hold_rebase(st, ev, packet, now) ==
    IF ~st.is_right_click /\ ~st.has_moved
    THEN IF euc_distance_to_sq(unwrap(st.touch_origin), Point(packet.x, packet.y))
               > HAS_MOVED_THRESHOLD * HAS_MOVED_THRESHOLD
         THEN Arm([st EXCEPT !.has_moved = TRUE], ev, FALSE)
         ELSE IF now - unwrap(st.touch_start_time) > RIGHT_CLICK_THRESHOLD
              THEN Arm([st EXCEPT !.is_right_click = TRUE],
                       emit_btn_press(ev, BTN_RIGHT), FALSE)
              ELSE Arm([st EXCEPT !.touch_origin = Some(Point(packet.x, packet.y))],
                       ev, FALSE)
    ELSE Arm(st, ev, FALSE)

\* mutant: the hold arm tests the drift whether or not a right-click was
\* started
update_hold_drift_always(st, ev, packet, now) ==
    IF ~st.has_moved
    THEN IF euc_distance_to_sq(unwrap(st.touch_origin), Point(packet.x, packet.y))
               > HAS_MOVED_THRESHOLD * HAS_MOVED_THRESHOLD
         THEN Arm([st EXCEPT !.has_moved = TRUE], ev, FALSE)
         ELSE IF ~st.is_right_click
                 /\ now - unwrap(st.touch_start_time) > RIGHT_CLICK_THRESHOLD
              THEN Arm([st EXCEPT !.is_right_click = TRUE],
                       emit_btn_press(ev, BTN_RIGHT), FALSE)
              ELSE Arm(st, ev, FALSE)
    ELSE Arm(st, ev, FALSE)

\* (IsTouching, IsTouching)
update_hold(st, ev, packet, now) ==
    IF ~st.is_right_click /\ ~st.has_moved
    THEN IF st.touch_origin = None
         THEN Arm(st, ev, TRUE)
         ELSE IF euc_distance_to_sq(unwrap(st.touch_origin), Point(packet.x, packet.y))
                    > HAS_MOVED_THRESHOLD * HAS_MOVED_THRESHOLD
              THEN Arm([st EXCEPT !.has_moved = TRUE], ev, FALSE)
              ELSE IF st.touch_start_time = None
                   THEN Arm(st, ev, TRUE)
                   ELSE IF now - unwrap(st.touch_start_time) > RIGHT_CLICK_THRESHOLD
                        THEN Arm([st EXCEPT !.is_right_click = TRUE],
                                 emit_btn_press(ev, BTN_RIGHT), FALSE)
                        ELSE Arm(st, ev, FALSE)
    ELSE Arm(st, ev, FALSE)

update_match(st, ev, packet, now) ==
    CASE st.touch_state = NotTouching /\ packet.touch_state = NotTouching ->
            Arm(st, ev, FALSE)
      [] st.touch_state = IsTouching /\ packet.touch_state = NotTouching ->
            update_release(st, ev)
      [] st.touch_state = NotTouching /\ packet.touch_state = IsTouching ->
            update_start(st, ev, packet, now)
      [] st.touch_state = IsTouching /\ packet.touch_state = IsTouching ->
            update_hold(st, ev, packet, now)

\* mutant: the touch state of the packet is not stored
update_tail_stale(st, ev, packet, monitor_cfg) ==
    LET s2 == [st EXCEPT !.p.x = packet.x]
        e1 == emit_move_x(ev, packet.x, monitor_cfg)
        s3 == [s2 EXCEPT !.p.y = packet.y]
        e2 == emit_move_y(e1, packet.y, monitor_cfg)
    IN [state |-> s3, events |-> finish(e2), panic |-> FALSE]

\* the statements after the match: store the touch state and the position,
\* emit the two moves and the sync
update_tail(st, ev, packet, monitor_cfg) ==
    LET s1 == [st EXCEPT !.touch_state = packet.touch_state]
        s2 == [s1 EXCEPT !.p.x = packet.x]
        e1 == emit_move_x(ev, packet.x, monitor_cfg)
        s3 == [s2 EXCEPT !.p.y = packet.y]
        e2 == emit_move_y(e1, packet.y, monitor_cfg)
    IN [state |-> s3, events |-> finish(e2), panic |-> FALSE]

\* mutant: the moves are emitted before the button events
update_moves_first(st, monitor_cfg, packet, now) ==
    LET e0 == EventGen_new(packet.time)
        e1 == emit_move_x(e0, packet.x, monitor_cfg)
        e2 == emit_move_y(e1, packet.y, monitor_cfg)
        m == update_match(st, e2, packet, now)
        s3 == [m.state EXCEPT !.touch_state = packet.touch_state,
                              !.p = Point(packet.x, packet.y)]
    IN [state |-> s3, events |-> finish(m.events), panic |-> m.panic]

update(st, monitor_cfg, packet, now) ==
    LET m == update_match(st, EventGen_new(packet.time), packet, now)
    IN IF m.panic
       THEN [state |-> m.state, events |-> << >>, panic |-> TRUE]
       ELSE update_tail(m.state, m.events, packet, monitor_cfg)

\* Driver::send_events: the events are written one by one; the write of
\* event number `fail` returns an error (fail > Len(events): none does)
send_events(vm, events, fail) ==
    vm \o SubSeq(events, 1, Min2(fail - 1, Len(events)))

(***************************************************************************)
(* protocol.rs: USBPacket::try_parse.  Bytes are u8, coordinates u16.      *)
(***************************************************************************)
RECURSIVE BitAnd(_, _)
BitAnd(a, b) ==
    IF a = 0 \/ b = 0 THEN 0
    ELSE (a % 2) * (b % 2) + 2 * BitAnd(a \div 2, b \div 2)

RECURSIVE BitOr(_, _)
BitOr(a, b) ==
    IF a = 0 THEN b
    ELSE IF b = 0 THEN a
    ELSE Max2(a % 2, b % 2) + 2 * BitOr(a \div 2, b \div 2)

\* u16 << n and u16 >> n
Shl16(a, n) == (a * (2 ^ n)) % 65536
Shr16(a, n) == a \div (2 ^ n)

\* Result<USBPacket, ParsePacketError>; "unreachable" is the panic of the
\* unreachable!() arm
Ok(v) == [kind |-> "Ok", val |-> <<v>>]
Err(e, arg) == [kind |-> e, val |-> <<arg>>]
Unreachable == [kind |-> "unreachable", val |-> << >>]

\* the match on packet.0[1] & RESOLUTION_MASK; None stands for the
\* unreachable!() arm
resolution_match(masked) ==
    CASE masked = 0 -> Some(11)
      [] masked = 2 -> Some(12)
      [] masked = 4 -> Some(13)
      [] masked = 5 -> Some(14)
      [] OTHER -> None

\* mutant: the X bytes are read before the Y bytes
try_parse_swapped(packet, expected_tag) ==
    IF expected_tag /= None /\ packet[0] /= unwrap(expected_tag)
    THEN Err("UnexpectedTag", packet[0])
    ELSE LET resolution == resolution_match(BitAnd(packet[1], RESOLUTION_MASK))
             touch_state == IF BitAnd(packet[1], TOUCH_STATE_MASK) = 1
                            THEN IsTouching ELSE NotTouching
             x == BitOr(Shl16(packet[3], 8), packet[2])
             y == BitOr(Shl16(packet[5], 8), packet[4])
         IN IF resolution = None
            THEN Unreachable
            ELSE IF Shr16(y, unwrap(resolution)) /= 0
            THEN Err("WrongResolution", "Y")
            ELSE IF Shr16(x, unwrap(resolution)) /= 0
            THEN Err("WrongResolution", "X")
            ELSE Ok([touch_state |-> touch_state,
                     position |-> Point(x, y),
                     resolution |-> unwrap(resolution)])

\* mutant: the tag is compared after the resolution checks
try_parse_tag_last(packet, expected_tag) ==
    LET resolution == resolution_match(BitAnd(packet[1], RESOLUTION_MASK))
        touch_state == IF BitAnd(packet[1], TOUCH_STATE_MASK) = 1
                       THEN IsTouching ELSE NotTouching
        y == BitOr(Shl16(packet[3], 8), packet[2])
        x == BitOr(Shl16(packet[5], 8), packet[4])
    IN IF resolution = None
       THEN Unreachable
       ELSE IF Shr16(y, unwrap(resolution)) /= 0
       THEN Err("WrongResolution", "Y")
       ELSE IF Shr16(x, unwrap(resolution)) /= 0
       THEN Err("WrongResolution", "X")
       ELSE IF expected_tag /= None /\ packet[0] /= unwrap(expected_tag)
       THEN Err("UnexpectedTag", packet[0])
       ELSE Ok([touch_state |-> touch_state,
                position |-> Point(x, y),
                resolution |-> unwrap(resolution)])

try_parse(packet, expected_tag) ==
    IF expected_tag /= None /\ packet[0] /= unwrap(expected_tag)
    THEN Err("UnexpectedTag", packet[0])
    ELSE LET resolution == resolution_match(BitAnd(packet[1], RESOLUTION_MASK))
             touch_state == IF BitAnd(packet[1], TOUCH_STATE_MASK) = 1
                            THEN IsTouching ELSE NotTouching
             y == BitOr(Shl16(packet[3], 8), packet[2])
             x == BitOr(Shl16(packet[5], 8), packet[4])
         IN IF resolution = None
            THEN Unreachable
            ELSE IF Shr16(y, unwrap(resolution)) /= 0
            THEN Err("WrongResolution", "Y")
            ELSE IF Shr16(x, unwrap(resolution)) /= 0
            THEN Err("WrongResolution", "X")
            ELSE Ok([touch_state |-> touch_state,
                     position |-> Point(x, y),
                     resolution |-> unwrap(resolution)])

\* Range::midpoint and AABB::midpoint
Range_midpoint(self) == lerp(self, F32_HALF)
AABB_midpoint(self) == Point(Range_midpoint(xrange(self)), Range_midpoint(yrange(self)))

\* impl Add for udim<D>: the sum of two i32, wrapped where the build does
\* not check overflow
I32_MAX == 2147483647

add_overflows(a, b) ==
    \/ b > 0 /\ a > I32_MAX - b
    \/ b < 0 /\ a < (-I32_MAX - 1) - b

udim_add(a, b) ==
    IF b > 0 /\ a > I32_MAX - b
    THEN (a - I32_MAX - 1) + (b - I32_MAX - 1)
    ELSE IF b < 0 /\ a < (-I32_MAX - 1) - b
    THEN (a + I32_MAX + 1) + (b + I32_MAX + 1)
    ELSE a + b

AABB_new_wh(x, y, width, height) == AABB_new(x, y, udim_add(x, width), udim_add(y, height))

AABB_default == [x1 |-> 0, y1 |-> 0, x2 |-> 0, y2 |-> 0]

\* From<(T, T, T, T)> for AABB
AABB_from(t) == AABB_new(t[1], t[2], t[3], t[4])

\* From<(T, T)> for Range: the fields are taken as given
Range_from(t) == [min |-> t[1], max |-> t[2]]

\* mutant: the lower corner is taken from self alone
union_keep_corner(self, rhs) ==
    [x1 |-> self.x1, y1 |-> self.y1,
     x2 |-> Max2(self.x2, rhs.x2), y2 |-> Max2(self.y2, rhs.y2)]

union(self, rhs) ==
    [x1 |-> Min2(self.x1, rhs.x1), y1 |-> Min2(self.y1, rhs.y1),
     x2 |-> Max2(self.x2, rhs.x2), y2 |-> Max2(self.y2, rhs.y2)]

translate_unsorted(self, x, y) ==
    [x1 |-> udim_add(self.x1, x), y1 |-> udim_add(self.y1, y),
     x2 |-> udim_add(self.x2, x), y2 |-> udim_add(self.y2, y)]

translate(self, x, y) ==
    AABB_new(udim_add(self.x1, x), udim_add(self.y1, y),
             udim_add(self.x2, x), udim_add(self.y2, y))

Geo_default ==
    [aabb |-> AABB_default, rhs |-> AABB_default, range |-> Range_new(0, 0),
     out |-> None, n |-> 0, panic |-> FALSE]

\* mutant: grow_to_point moves the upper corner only
grow_to_point_upper(self, point) ==
    [x1 |-> self.x1, y1 |-> self.y1,
     x2 |-> Max2(self.x2, point.x), y2 |-> Max2(self.y2, point.y)]

grow_to_point(self, point) ==
    [x1 |-> Min2(self.x1, point.x), y1 |-> Min2(self.y1, point.y),
     x2 |-> Max2(self.x2, point.x), y2 |-> Max2(self.y2, point.y)]

(***************************************************************************)
(* egalax-config calibrate.rs: the calibration session.                    *)
(* CalibrationState is [kind |-> "Ongoing", stage, touch_cloud,            *)
(* touch_state] or [kind |-> "Finished", calibration_points]; a Stage is   *)
(* the sequence of its coords, its number their count.                     *)
(***************************************************************************)
NUM_DECALS == 50

\* (1.0 - CIRCLE_OFFSET) / H and CIRCLE_OFFSET / H, evaluated in f32 with
\* CIRCLE_OFFSET = 0.15f32 = 5033165 * 2^-25 and
\* H = 1.0 - CIRCLE_OFFSET - CIRCLE_OFFSET = 2936013 * 2^-22
ONE_MINUS_OFFSET_BY_H == [m |-> 5093083, e |-> 22]
OFFSET_BY_H == [m |-> 7190235, e |-> 25]

OngoingState_new(stage) ==
    [kind |-> "Ongoing", stage |-> stage, touch_cloud |-> << >>,
     touch_state |-> NotTouching]

CalibrationState_start == OngoingState_new(<< >>)

average(t0, t1) == udim_mul(t0 + t1, [n |-> 1, d |-> 2])

cmin_swapped(t0, t1) == udim_mul_f32(t0, OFFSET_BY_H) - udim_mul_f32(t1, ONE_MINUS_OFFSET_BY_H)

cmin(t0, t1) == udim_mul_f32(t0, ONE_MINUS_OFFSET_BY_H) - udim_mul_f32(t1, OFFSET_BY_H)

cmax(t0, t1, min) == t0 + t1 - min

advance_columns(self, c) ==
    IF Len(self.stage) < 3
    THEN OngoingState_new(Append(self.stage, c))
    ELSE LET c0 == self.stage[1]
             c1 == self.stage[2]
             c2 == self.stage[3]
             x0 == average(c0.x, c2.x)
             x1 == average(c1.x, c.x)
             y0 == average(c0.y, c1.y)
             y1 == average(c2.y, c.y)
         IN Eval(cmin(x0, x1), LAMBDA xmin : Eval(cmin(y0, y1), LAMBDA ymin :
                [kind |-> "Finished",
                 calibration_points |-> AABB_new(xmin, ymin, cmax(x0, x1, xmin),
                                                 cmax(y0, y1, ymin))]))

advance(self, c) ==
    IF Len(self.stage) < 3
    THEN OngoingState_new(Append(self.stage, c))
    ELSE LET c0 == self.stage[1]
             c1 == self.stage[2]
             c2 == self.stage[3]
             x0 == average(c0.x, c1.x)
             x1 == average(c2.x, c.x)
             y0 == average(c0.y, c2.y)
             y1 == average(c1.y, c.y)
         IN Eval(cmin(x0, x1), LAMBDA xmin : Eval(cmin(y0, y1), LAMBDA ymin :
                [kind |-> "Finished",
                 calibration_points |-> AABB_new(xmin, ymin, cmax(x0, x1, xmin),
                                                 cmax(y0, y1, ymin))]))

RECURSIVE grow_fold(_, _, _)
grow_fold(abox, v, i) ==
    IF i > Len(v) THEN abox ELSE grow_fold(grow_to_point(abox, v[i]), v, i + 1)

\* TouchCloud::compute_touch_coord; None when the assertion fails
compute_touch_coord(v) ==
    IF v = << >>
    THEN None
    ELSE Some(AABB_midpoint(grow_fold(AABB_new_wh(v[1].x, v[1].y, 0, 0), v, 2)))

\* mutant: every packet with the finger up advances the stage
calibrate_with_packet_any_release(self, packet) ==
    LET cloud == Append(self.touch_cloud, packet.position)
        release == packet.touch_state = NotTouching
        pushed == [self EXCEPT !.touch_cloud = cloud]
    IN Eval(compute_touch_coord(cloud), LAMBDA coord :
          IF release /\ coord = None
          THEN [self |-> pushed, result |-> None, panic |-> TRUE]
          ELSE [self |-> [pushed EXCEPT !.touch_state = packet.touch_state],
                result |-> IF release THEN Some(advance(pushed, unwrap(coord))) ELSE None,
                panic |-> FALSE])

\* mutant: the position of the packet is not pushed to the cloud
calibrate_with_packet_no_push(self, packet) ==
    LET release == self.touch_state = IsTouching /\ packet.touch_state = NotTouching
    IN Eval(compute_touch_coord(self.touch_cloud), LAMBDA coord :
          IF release /\ coord = None
          THEN [self |-> self, result |-> None, panic |-> TRUE]
          ELSE [self |-> [self EXCEPT !.touch_state = packet.touch_state],
                result |-> IF release THEN Some(advance(self, unwrap(coord))) ELSE None,
                panic |-> FALSE])

\* OngoingState::calibrate_with_packet: the mutated self, the returned
\* Option<CalibrationState> and whether the assertion failed
calibrate_with_packet(self, packet) ==
    LET cloud == Append(self.touch_cloud, packet.position)
        release == self.touch_state = IsTouching /\ packet.touch_state = NotTouching
        pushed == [self EXCEPT !.touch_cloud = cloud]
    IN Eval(compute_touch_coord(cloud), LAMBDA coord :
          IF release /\ coord = None
          THEN [self |-> pushed, result |-> None, panic |-> TRUE]
          ELSE [self |-> [pushed EXCEPT !.touch_state = packet.touch_state],
                result |-> IF release THEN Some(advance(pushed, unwrap(coord))) ELSE None,
                panic |-> FALSE])

\* Calibrator::add_decal
add_decal(decals, position) ==
    Append(IF Len(decals) = NUM_DECALS THEN Tail(decals) ELSE decals, position)

\* the square of Point2D::euclidean_distance_to (10.0 * 10.0 is exact)
euclidean_distance_to_sq(self, other) ==
    (other.x - self.x) * (other.x - self.x) + (other.y - self.y) * (other.y - self.y)

\* Calibrator::process_packet on the fields state and decals
Calibrator_process_packet(self, packet) ==
    Eval(IF self.state.kind = "Ongoing"
         THEN calibrate_with_packet(self.state, packet)
         ELSE [self |-> self.state, result |-> None, panic |-> FALSE], LAMBDA r :
    LET new_state == IF r.result /= None THEN unwrap(r.result) ELSE r.self
        position == packet.position
        far == \/ self.decals = << >>
               \/ euclidean_distance_to_sq(position, self.decals[Len(self.decals)]) > 100
    IN [state |-> new_state,
        decals |-> IF far THEN add_decal(self.decals, position) ELSE self.decals,
        panic |-> r.panic])

(***************************************************************************)
(* egalax-config app.rs: the text fields of the settings editor.  A String *)
(* is the sequence of its characters; the fields hold decimal digits, the  *)
(* signs and letters.                                                      *)
(***************************************************************************)
DigitChars == <<"0", "1", "2", "3", "4", "5", "6", "7", "8", "9">>
IsDigit(c) == \E d \in 1 .. 10 : DigitChars[d] = c
DigitValue(c) == (CHOOSE d \in 1 .. 10 : DigitChars[d] = c) - 1

RECURSIVE digits_value(_, _)
digits_value(text, acc) ==
    IF text = << >> THEN acc
    ELSE digits_value(Tail(text), acc * 10 + DigitValue(Head(text)))

IsDigits(text) == text /= << >> /\ \A k \in 1 .. Len(text) : IsDigit(text[k])

\* str::parse::<u64>: an optional '+' and at least one decimal digit (the
\* texts are too short to exceed u64); None stands for Err
parse_u64(text) ==
    LET body == IF text /= << >> /\ Head(text) = "+" THEN Tail(text) ELSE text
    IN IF IsDigits(body) THEN Some(digits_value(body, 0)) ELSE None

\* str::parse::<f32> on a text without '.', exponent, "inf" or "nan": an
\* optional sign and at least one decimal digit; the value is below 2^24,
\* which f32 holds exactly
parse_f32(text) ==
    LET signed == text /= << >> /\ Head(text) \in {"+", "-"}
        body == IF signed THEN Tail(text) ELSE text
    IN IF IsDigits(body)
       THEN Some(IF signed /\ Head(text) = "-"
                 THEN 0 - digits_value(body, 0) ELSE digits_value(body, 0))
       ELSE None

\* to_string of a u64 and of an f32 that holds a non-negative integer
RECURSIVE to_string(_)
to_string(n) ==
    IF n < 10 THEN <<DigitChars[n + 1]>>
    ELSE Append(to_string(n \div 10), DigitChars[(n % 10) + 1])

\* Input::new
Input_new(config_file) ==
    [has_moved |-> to_string(config_file.common.has_moved_threshold),
     right_click_wait |-> to_string(config_file.common.right_click_wait_ms)]

(***************************************************************************)
(* State.                                                                  *)
(***************************************************************************)
VARIABLES
    state,          \* Driver.state
    monitor_cfg,    \* Driver.monitor_cfg
    clock,          \* Instant::now() / SystemTime::now(), in milliseconds
    events,         \* the batch returned by the last Driver::update
    vm,             \* the events written to the virtual device so far
    status,         \* "running", "io_error" (a write failed) or "panic"
    frames,         \* history: per update, the packet, the clock read and the state before
    out,            \* history: the batches returned by update
    raw_packet,     \* decoder: the frame to decode
    expected_tag,   \* decoder: the expected tag, or None
    parsed,         \* decoder: the result of try_parse, None before the call
    loop_error,     \* the Err a read loop returned, None while it runs
    nread,          \* the number of frames the read loop has read
    calibrator_window, \* App.calibrator_window: "Deactivated" or "Running"
    app_pc,         \* App::update: "idle" between calls, "finish" with a Finish
                    \* response in hand, "join" inside Calibrator::exit,
                    \* "closed" or "panic"
    response,       \* the Option<AABB> of the Finish response in hand
    calibrator,     \* Calibrator.state and Calibrator.decals
    rx_packet,      \* the packet channel, oldest message first
    tx_exit,        \* the number of exit signals in the exit channel
    reader,         \* the reader thread: "none", "running", "polling" (in
                    \* the loop, past the test of the exit signal), "exited"
                    \* (Ok), "failed" (Err) or "panicked"
    current_config, \* App.current_config
    original_config, \* App.original_config
    config_file,    \* the configuration last saved to the file
    stage_samples,  \* history: the packets processed in the current stage
    last_capture    \* history: the cloud, the samples and the coordinate of
                    \* the compute_touch_coord of the last packet processed,
                    \* None when that packet did not reach it
                    ,
    solver_in,      \* solver: the four coordinates of a session, in capture
                    \* order; << >> outside the solver's specification
    channel_log,    \* history of the packet channel of the running calibrator,
                    \* each message named by the number of its send: how many
                    \* the reader thread has sent (sent), the numbers of the
                    \* messages in rx_packet (queued) and the numbers of those
                    \* process_input has handed to process_packet (processed)
    geo,            \* geometry: an AABB under construction and mutation
                    \* (aabb), a second one (rhs), a Range (range), the last
                    \* interpolation (out), the number of operations so far
                    \* (n) and whether an addition overflowed in a build that
                    \* checks overflow (panic)
    input           \* App.input: the text of the has-moved-threshold field
                    \* (has_moved) and of the right-click-wait field
                    \* (right_click_wait), each the sequence of its characters

vars == <<state, monitor_cfg, clock, events, vm, status, frames, out,
          raw_packet, expected_tag, parsed, loop_error, nread,
          calibrator_window, app_pc, response, calibrator, rx_packet, tx_exit,
          reader, current_config, original_config, config_file,
          stage_samples, last_capture, channel_log, solver_in, geo, input>>

driverVars == <<state, monitor_cfg, clock, events, vm, status, frames, out>>
parseVars == <<raw_packet, expected_tag, parsed>>
readVars == <<loop_error, nread>>
pureVars == <<solver_in, geo>>
appVars == <<calibrator_window, app_pc, response, calibrator, rx_packet, tx_exit,
             reader, current_config, original_config, config_file,
             stage_samples, last_capture, channel_log, input>>

(***************************************************************************)
(* Inputs.                                                                 *)
(***************************************************************************)
\* ConfigCommon::default() calibration box on a 1920x1080 monitor that is the
\* left half of the screen space, and the same with a calibration box of zero
\* width and zero height
Configs ==
    {[calibration_points |-> AABB_new(c[1], c[2], c[3], c[4]),
      monitor_area |-> AABB_new(0, 0, 1920, 1080),
      screen_space |-> AABB_new(0, 0, 3840, 1080)] :
        c \in {<<300, 300, 3800, 3800>>, <<300, 2050, 300, 2050>>}}

\* a touch origin, a point at distance exactly 30 from it and one just beyond
SamplePoints == {Point(2050, 2050), Point(2068, 2074), Point(2069, 2074)}

\* the samples: a finger down at any of the points, a finger up at the first
Samples ==
    {[touch_state |-> IsTouching, x |-> p.x, y |-> p.y] : p \in SamplePoints}
    \cup {[touch_state |-> NotTouching, x |-> 2050, y |-> 2050]}

\* the write of a batch that returns an error, when one does: the second, so
\* that a part of the batch has reached the device
FailingWrites == {2}

\* milliseconds between two packets
Delays == {1500, 1501}

TagBytes == {2, 170}
FlagBytes == {0, 1, 2, 3, 4, 5, 6, 7, 249, 255}
LowBytes == {0, 53, 255}
HighBytes == {0, 1, 7, 8, 15, 16, 17, 31, 32, 63, 64, 255}

RawPacket(b) == [i \in 0 .. (RAW_PACKET_LEN - 1) |-> b[i + 1]]

\* the frames of the tests of protocol.rs
TestPackets ==
    {RawPacket(<<2, 3, 59, 1, 50, 1>>), RawPacket(<<2, 2, 53, 1, 57, 1>>),
     RawPacket(<<170, 2, 53, 1, 57, 1>>), RawPacket(<<2, 2, 53, 17, 57, 1>>),
     RawPacket(<<2, 2, 53, 1, 57, 17>>)}

RawPackets ==
    {RawPacket(b) :
        b \in TagBytes \X FlagBytes \X LowBytes \X HighBytes \X LowBytes \X HighBytes}
    \cup TestPackets

(***************************************************************************)
(* The driver: virtual_mouse's process_packet closure, once per packet.    *)
(***************************************************************************)
InitDriver ==
    /\ state = DriverState_default
    /\ clock = 0
    /\ events = << >>
    /\ vm = << >>
    /\ status = "running"
    /\ frames = << >>
    /\ out = << >>

InitParseIdle ==
    /\ raw_packet = [i \in 0 .. (RAW_PACKET_LEN - 1) |-> 0]
    /\ expected_tag = None
    /\ parsed = None

\* no read loop has read a frame; no geometry has been computed
InitReadIdle ==
    /\ loop_error = None
    /\ nread = 0
    /\ geo = Geo_default

\* ConfigFile::default() with ConfigCommon::default()
SerializedConfig_default ==
    [monitor_designator |-> "Primary",
     common |-> [calibration_points |-> AABB_new(300, 300, 3800, 3800),
                 right_click_wait_ms |-> 1500,
                 has_moved_threshold |-> 30,
                 ev_left_click |-> "BTN_LEFT",
                 ev_right_click |-> "BTN_RIGHT"]]

\* the fields of a Calibrator made by Calibrator::new
Calibrator_new == [state |-> CalibrationState_start, decals |-> << >>]

\* the packet channel made by Calibrator::new: nothing sent, nothing received
ChannelLog_new == [sent |-> 0, queued |-> << >>, processed |-> << >>]

\* App::new: the main view, no calibrator and no reader thread
InitApp ==
    /\ calibrator_window = "Deactivated"
    /\ app_pc = "idle"
    /\ response = None
    /\ calibrator = Calibrator_new
    /\ rx_packet = << >>
    /\ tx_exit = 0
    /\ reader = "none"
    /\ current_config = SerializedConfig_default
    /\ original_config = SerializedConfig_default
    /\ config_file = SerializedConfig_default
    /\ stage_samples = << >>
    /\ last_capture = None
    /\ channel_log = ChannelLog_new
    /\ input = Input_new(SerializedConfig_default)
    /\ solver_in = << >>

Init ==
    /\ InitDriver
    /\ monitor_cfg \in Configs
    /\ InitParseIdle
    /\ InitReadIdle
    /\ InitApp

process_packet(sample, delay) ==
    /\ status = "running"
    /\ Len(frames) < MaxSteps
    /\ LET now == clock + delay
           packet == [touch_state |-> sample.touch_state, x |-> sample.x,
                      y |-> sample.y, time |-> now]
           r == update(state, monitor_cfg, packet, now)
       IN /\ clock' = now
          /\ state' = r.state
          /\ frames' = Append(frames, [packet |-> packet, now |-> now, pre |-> state])
          /\ IF r.panic
             THEN /\ status' = "panic"
                  /\ UNCHANGED <<events, vm, out>>
             ELSE /\ events' = r.events
                  /\ out' = Append(out, r.events)
                  /\ \E fail \in FailingWrites \cup {Len(r.events) + 1} :
                        /\ vm' = send_events(vm, r.events, fail)
                        /\ status' = IF fail <= Len(r.events) THEN "io_error" ELSE "running"
    /\ UNCHANGED <<monitor_cfg, raw_packet, expected_tag, parsed>>
    /\ UNCHANGED <<readVars, appVars, pureVars>>

Next == \E sample \in Samples, delay \in Delays : process_packet(sample, delay)

Spec == Init /\ [][Next]_vars

(***************************************************************************)
(* The decoder: one call of USBPacket::try_parse on an arbitrary frame.    *)
(***************************************************************************)
InitParse ==
    /\ InitDriver
    /\ monitor_cfg = CHOOSE c \in Configs : c.calibration_points.x1 /= c.calibration_points.x2
    /\ raw_packet \in RawPackets
    /\ expected_tag \in {None, Some(TouchEvent)}
    /\ parsed = None
    /\ InitReadIdle
    /\ InitApp

parse_packet ==
    /\ parsed = None
    /\ parsed' = Some(try_parse(raw_packet, expected_tag))
    /\ UNCHANGED <<raw_packet, expected_tag>>
    /\ UNCHANGED <<driverVars, readVars, appVars, pureVars>>

NextParse == parse_packet

SpecParse == InitParse /\ [][NextParse]_vars

(***************************************************************************)
(* The settings editor with its calibrator (egalax-config): the GUI thread *)
(* runs App::update, the reader thread runs read_packets.                  *)
(***************************************************************************)
\* the frames the device delivers during a calibration: a finger down at
\* (313, 309) or at (3700, 3600), a finger up at (3701, 3603), a frame with
\* a foreign tag, one with Y beyond its resolution and one with both
\* resolution bits set
CalibFrames ==
    {RawPacket(<<2, 3, 53, 1, 57, 1>>), RawPacket(<<2, 3, 16, 14, 116, 14>>),
     RawPacket(<<2, 2, 19, 14, 117, 14>>), RawPacket(<<170, 2, 53, 1, 57, 1>>),
     RawPacket(<<2, 2, 53, 17, 57, 1>>), RawPacket(<<2, 6, 0, 0, 0, 0>>)}

\* the frames of a calibration on which the device and the clock do not
\* fail: the three decodable frames and the frame with a foreign tag
SessionFrames ==
    {f \in CalibFrames : try_parse(f, None).kind = "Ok"}
    \cup {RawPacket(<<170, 2, 53, 1, 57, 1>>)}

\* what poll and read give the reader: a whole frame, or an error (a poll
\* error, a read error, a partial read or a clock before the epoch)
ReadOutcomes == {"frame", "error"}

Keys == {"Escape", "Enter", "C", "R"}

\* the reader thread has not returned from read_packets: it is at the top
\* of the loop ("running") or past the test of the exit signal ("polling")
ReaderAlive == reader \in {"running", "polling"}

\* App::start_calibration reached with calibrator_window Deactivated:
\* Calibrator::new makes the channels and spawns the reader thread
start_calibration ==
    /\ calibrator_window' = "Running"
    /\ calibrator' = Calibrator_new
    /\ rx_packet' = << >>
    /\ tx_exit' = 0
    /\ reader' = "running"
    /\ stage_samples' = << >>
    /\ last_capture' = None
    /\ channel_log' = ChannelLog_new

\* App::update with calibrator_window Deactivated: process_input, then the
\* calibration button of draw (the other widgets of draw are left alone).
\* A second start_calibration in the same frame finds the window Running
\* and panics.
update_deactivated(keys, clicked) ==
    /\ calibrator_window = "Deactivated"
    /\ app_pc = "idle"
    /\ LET closes == "Escape" \in keys \/ "Enter" \in keys
           saves == "Escape" \notin keys /\ "Enter" \in keys
           key_start == ~closes /\ "C" \in keys
           resets == ~closes /\ "C" \notin keys /\ "R" \in keys
       IN /\ config_file' = IF saves THEN current_config ELSE config_file
          /\ current_config' = IF resets THEN original_config ELSE current_config
          /\ IF key_start \/ clicked
             THEN start_calibration
             ELSE UNCHANGED <<calibrator_window, calibrator, rx_packet, tx_exit,
                              reader, stage_samples, last_capture, channel_log>>
          /\ app_pc' = IF key_start /\ clicked THEN "panic"
                       ELSE IF closes THEN "closed"
                       ELSE "idle"
    /\ UNCHANGED <<response, original_config>>
    /\ UNCHANGED <<driverVars, parseVars, readVars, pureVars, input>>

\* mutant: a frame that fails to decode is dropped and the loop goes on
packet_reader_skip(frame, outcome) ==
    /\ reader = "running"
    /\ app_pc \notin {"closed", "panic"}
    /\ IF tx_exit > 0
       THEN /\ tx_exit' = tx_exit - 1
            /\ reader' = "exited"
            /\ UNCHANGED <<raw_packet, parsed, loop_error, nread, rx_packet, channel_log>>
       ELSE IF outcome = "error"
       THEN /\ reader' = "failed"
            /\ loop_error' = Some(Err("IOError", 0))
            /\ UNCHANGED <<raw_packet, parsed, nread, rx_packet, tx_exit, channel_log>>
       ELSE /\ nread < MaxFrames
            /\ Len(rx_packet) < MaxQueue
            /\ nread' = nread + 1
            /\ raw_packet' = frame
            /\ LET r == try_parse(frame, Some(TouchEvent))
               IN /\ parsed' = Some(r)
                  /\ CASE r.kind = "Ok" ->
                            /\ rx_packet' = Append(rx_packet, unwrap(r.val))
                            /\ channel_log' = [channel_log EXCEPT
                                                  !.sent = @ + 1,
                                                  !.queued = Append(@, channel_log.sent + 1)]
                            /\ UNCHANGED <<reader, loop_error>>
                       [] r.kind = "unreachable" ->
                            /\ reader' = "panicked"
                            /\ UNCHANGED <<rx_packet, loop_error, channel_log>>
                       [] OTHER ->
                            UNCHANGED <<reader, loop_error, rx_packet, channel_log>>
            /\ UNCHANGED tx_exit
    /\ UNCHANGED <<calibrator_window, app_pc, response, calibrator, current_config,
                   original_config, config_file, stage_samples, last_capture>>
    /\ UNCHANGED <<driverVars, expected_tag, pureVars, input>>

\* one iteration of the loop of read_packets (a poll that times out changes
\* nothing): the exit signal ends the loop, otherwise a frame is read,
\* decoded with the tag TouchEvent and sent
packet_reader(frame, outcome) ==
    /\ reader = "running"
    /\ app_pc \notin {"closed", "panic"}
    /\ IF tx_exit > 0
       THEN /\ tx_exit' = tx_exit - 1
            /\ reader' = "exited"
            /\ UNCHANGED <<raw_packet, parsed, loop_error, nread, rx_packet, channel_log>>
       ELSE IF outcome = "error"
       THEN /\ reader' = "failed"
            /\ loop_error' = Some(Err("IOError", 0))
            /\ UNCHANGED <<raw_packet, parsed, nread, rx_packet, tx_exit, channel_log>>
       ELSE /\ nread < MaxFrames
            /\ Len(rx_packet) < MaxQueue
            /\ nread' = nread + 1
            /\ raw_packet' = frame
            /\ LET r == try_parse(frame, Some(TouchEvent))
               IN /\ parsed' = Some(r)
                  /\ CASE r.kind = "Ok" ->
                            /\ rx_packet' = Append(rx_packet, unwrap(r.val))
                            /\ channel_log' = [channel_log EXCEPT
                                                  !.sent = @ + 1,
                                                  !.queued = Append(@, channel_log.sent + 1)]
                            /\ UNCHANGED <<reader, loop_error>>
                       [] r.kind = "unreachable" ->
                            /\ reader' = "panicked"
                            /\ UNCHANGED <<rx_packet, loop_error, channel_log>>
                       [] OTHER ->
                            /\ reader' = "failed"
                            /\ loop_error' = Some(r)
                            /\ UNCHANGED <<rx_packet, channel_log>>
            /\ UNCHANGED tx_exit
    /\ UNCHANGED <<calibrator_window, app_pc, response, calibrator, current_config,
                   original_config, config_file, stage_samples, last_capture>>
    /\ UNCHANGED <<driverVars, expected_tag, pureVars, input>>

\* mutant: try_recv gives the newest message of the channel
process_input_recv_newest ==
    /\ calibrator_window = "Running"
    /\ app_pc = "idle"
    /\ rx_packet /= << >>
    /\ \E packet \in {rx_packet[Len(rx_packet)]} :
       \E r \in {Calibrator_process_packet(calibrator, packet)} :
       \E cw \in {IF calibrator.state.kind = "Ongoing"
                  THEN calibrate_with_packet(calibrator.state, packet)
                  ELSE [self |-> calibrator.state, result |-> None, panic |-> FALSE]} :
       LET ongoing == calibrator.state.kind = "Ongoing"
           advances == ongoing /\ cw.result /= None
       IN /\ rx_packet' = SubSeq(rx_packet, 1, Len(rx_packet) - 1)
          /\ channel_log' = [channel_log EXCEPT
                                !.queued = SubSeq(@, 1, Len(@) - 1),
                                !.processed = Append(@, channel_log.queued[Len(channel_log.queued)])]
          /\ IF r.panic
             THEN /\ app_pc' = "panic"
                  /\ UNCHANGED <<calibrator, stage_samples, last_capture>>
             ELSE /\ app_pc' = app_pc
                  /\ calibrator' = [state |-> r.state, decals |-> r.decals]
                  /\ stage_samples' = IF advances THEN << >>
                                      ELSE IF ongoing THEN Append(stage_samples, packet)
                                      ELSE stage_samples
                  /\ last_capture' =
                        IF advances
                        THEN Some([cloud |-> cw.self.touch_cloud,
                                   samples |-> Append(stage_samples, packet),
                                   coord |-> unwrap(compute_touch_coord(cw.self.touch_cloud))])
                        ELSE None
    /\ UNCHANGED <<calibrator_window, response, tx_exit, reader, current_config,
                   original_config, config_file>>
    /\ UNCHANGED <<driverVars, parseVars, readVars, pureVars, input>>

\* Calibrator::process_input, one turn of its loop with try_recv giving
\* Ok(msg): Calibrator::process_packet on the oldest message
process_input_recv ==
    /\ calibrator_window = "Running"
    /\ app_pc = "idle"
    /\ rx_packet /= << >>
    /\ \E packet \in {Head(rx_packet)} :
       \E r \in {Calibrator_process_packet(calibrator, packet)} :
       \E cw \in {IF calibrator.state.kind = "Ongoing"
                  THEN calibrate_with_packet(calibrator.state, packet)
                  ELSE [self |-> calibrator.state, result |-> None, panic |-> FALSE]} :
       LET ongoing == calibrator.state.kind = "Ongoing"
           advances == ongoing /\ cw.result /= None
       IN /\ rx_packet' = Tail(rx_packet)
          /\ channel_log' = [channel_log EXCEPT
                                !.queued = Tail(@),
                                !.processed = Append(@, Head(channel_log.queued))]
          /\ IF r.panic
             THEN /\ app_pc' = "panic"
                  /\ UNCHANGED <<calibrator, stage_samples, last_capture>>
             ELSE /\ app_pc' = app_pc
                  /\ calibrator' = [state |-> r.state, decals |-> r.decals]
                  /\ stage_samples' = IF advances THEN << >>
                                      ELSE IF ongoing THEN Append(stage_samples, packet)
                                      ELSE stage_samples
                  /\ last_capture' =
                        IF advances
                        THEN Some([cloud |-> cw.self.touch_cloud,
                                   samples |-> Append(stage_samples, packet),
                                   coord |-> unwrap(compute_touch_coord(cw.self.touch_cloud))])
                        ELSE None
    /\ UNCHANGED <<calibrator_window, response, tx_exit, reader, current_config,
                   original_config, config_file>>
    /\ UNCHANGED <<driverVars, parseVars, readVars, pureVars, input>>

\* Calibrator::process_input from the turn in which try_recv finds the
\* channel empty: Closed (the reader thread has dropped the sender) is the
\* unreachable!() arm, Empty leads to the keys; a Continue response ends
\* App::update with the calibrator put back
process_input_keys(escape, enter) ==
    /\ calibrator_window = "Running"
    /\ app_pc = "idle"
    /\ rx_packet = << >>
    /\ IF ~ReaderAlive
       THEN /\ app_pc' = "panic"
            /\ UNCHANGED response
       ELSE IF escape
       THEN /\ app_pc' = "finish"
            /\ response' = None
       ELSE IF calibrator.state.kind = "Finished" /\ enter
       THEN /\ app_pc' = "finish"
            /\ response' = Some(calibrator.state.calibration_points)
       ELSE UNCHANGED <<app_pc, response>>
    /\ UNCHANGED <<calibrator_window, calibrator, rx_packet, tx_exit, reader,
                   current_config, original_config, config_file, stage_samples,
                   last_capture, channel_log>>
    /\ UNCHANGED <<driverVars, parseVars, readVars, pureVars, input>>

update_finish_discard ==
    /\ app_pc = "finish"
    /\ response' = None
    /\ IF ReaderAlive
       THEN /\ tx_exit' = tx_exit + 1
            /\ app_pc' = "join"
       ELSE /\ app_pc' = "panic"
            /\ UNCHANGED tx_exit
    /\ UNCHANGED <<calibrator_window, calibrator, rx_packet, reader, current_config,
                   original_config, config_file, stage_samples, last_capture,
                   channel_log>>
    /\ UNCHANGED <<driverVars, parseVars, readVars, pureVars, input>>

\* App::update with a Finish response: the result is stored, then
\* Calibrator::exit sends the exit signal (send_blocking fails, and expect
\* panics, when the reader thread has dropped the receiver)
update_finish ==
    /\ app_pc = "finish"
    /\ current_config' =
          IF response /= None
          THEN [current_config EXCEPT !.common.calibration_points = unwrap(response)]
          ELSE current_config
    /\ response' = None
    /\ IF ReaderAlive
       THEN /\ tx_exit' = tx_exit + 1
            /\ app_pc' = "join"
       ELSE /\ app_pc' = "panic"
            /\ UNCHANGED tx_exit
    /\ UNCHANGED <<calibrator_window, calibrator, rx_packet, reader, original_config,
                   config_file, stage_samples, last_capture, channel_log>>
    /\ UNCHANGED <<driverVars, parseVars, readVars, pureVars, input>>

\* Calibrator::exit: reader_handle.join().unwrap() returns once the reader
\* thread has ended (and panics if that thread panicked); the calibrator is
\* dropped and the window stays Deactivated
exit_join ==
    /\ app_pc = "join"
    /\ ~ReaderAlive
    /\ IF reader = "panicked"
       THEN /\ app_pc' = "panic"
            /\ UNCHANGED <<calibrator_window, calibrator, rx_packet, tx_exit, reader,
                           stage_samples, last_capture, channel_log>>
       ELSE /\ app_pc' = "idle"
            /\ calibrator_window' = "Deactivated"
            /\ calibrator' = Calibrator_new
            /\ rx_packet' = << >>
            /\ tx_exit' = 0
            /\ reader' = "none"
            /\ stage_samples' = << >>
            /\ last_capture' = None
            /\ channel_log' = ChannelLog_new
    /\ UNCHANGED <<response, current_config, original_config, config_file>>
    /\ UNCHANGED <<driverVars, parseVars, readVars, pureVars, input>>

InitCalib ==
    /\ InitDriver
    /\ monitor_cfg = CHOOSE c \in Configs : c.calibration_points.x1 /= c.calibration_points.x2
    /\ InitParseIdle
    /\ InitReadIdle
    /\ InitApp

NextCalib ==
    \/ \E keys \in SUBSET Keys, clicked \in BOOLEAN : update_deactivated(keys, clicked)
    \/ \E frame \in SessionFrames : packet_reader(frame, "frame")
    \/ process_input_recv
    \/ \E escape \in BOOLEAN, enter \in BOOLEAN : process_input_keys(escape, enter)
    \/ update_finish
    \/ exit_join

SpecCalib == InitCalib /\ [][NextCalib]_vars

(***************************************************************************)
(* The end of a calibration, with the loop of read_packets in the two      *)
(* steps the GUI thread can come between: the test of the exit signal,     *)
(* then poll, read, decode and send.                                       *)
(***************************************************************************)
\* a finger down at (313, 309), a frame with a foreign tag and a frame with
\* both resolution bits set
ExitFrames ==
    {RawPacket(<<2, 3, 53, 1, 57, 1>>), RawPacket(<<170, 2, 53, 1, 57, 1>>),
     RawPacket(<<2, 6, 0, 0, 0, 0>>)}

\* what poll and read give: nothing within PACKET_TIMEOUT_MS, a whole
\* frame, or an error (a poll error, a read error, a partial read or a
\* clock before the epoch)
PollOutcomes == {"timeout", "frame", "error"}

\* mutant: the loop never looks at the exit channel
read_packets_try_recv_blind ==
    /\ reader = "running"
    /\ app_pc \notin {"closed", "panic"}
    /\ reader' = "polling"
    /\ UNCHANGED <<calibrator_window, app_pc, response, calibrator, rx_packet, tx_exit,
                   current_config, original_config, config_file, stage_samples,
                   last_capture, channel_log>>
    /\ UNCHANGED <<driverVars, parseVars, readVars, pureVars, input>>

\* read_packets, the top of the loop: rx_exit.try_recv() gives Ok(()) and
\* the loop ends, or Empty and the loop goes on to poll
read_packets_try_recv ==
    /\ reader = "running"
    /\ app_pc \notin {"closed", "panic"}
    /\ IF tx_exit > 0
       THEN /\ tx_exit' = tx_exit - 1
            /\ reader' = "exited"
       ELSE /\ reader' = "polling"
            /\ UNCHANGED tx_exit
    /\ UNCHANGED <<calibrator_window, app_pc, response, calibrator, rx_packet,
                   current_config, original_config, config_file, stage_samples,
                   last_capture, channel_log>>
    /\ UNCHANGED <<driverVars, parseVars, readVars, pureVars, input>>

\* read_packets, the rest of the loop: poll returns within
\* PACKET_TIMEOUT_MS; a timeout goes back to the top, an error returns
\* Err, a frame is decoded with the tag TouchEvent and sent on the
\* unbounded packet channel
read_packets_poll(frame, outcome) ==
    /\ reader = "polling"
    /\ app_pc \notin {"closed", "panic"}
    /\ CASE outcome = "timeout" ->
              /\ reader' = "running"
              /\ UNCHANGED <<raw_packet, parsed, loop_error, nread, rx_packet, channel_log>>
         [] outcome = "error" ->
              /\ reader' = "failed"
              /\ loop_error' = Some(Err("IOError", 0))
              /\ UNCHANGED <<raw_packet, parsed, nread, rx_packet, channel_log>>
         [] OTHER ->
              /\ nread < MaxFrames
              /\ Len(rx_packet) < MaxQueue
              /\ nread' = nread + 1
              /\ raw_packet' = frame
              /\ LET r == try_parse(frame, Some(TouchEvent))
                 IN /\ parsed' = Some(r)
                    /\ CASE r.kind = "Ok" ->
                              /\ rx_packet' = Append(rx_packet, unwrap(r.val))
                              /\ channel_log' = [channel_log EXCEPT
                                                    !.sent = @ + 1,
                                                    !.queued = Append(@, channel_log.sent + 1)]
                              /\ reader' = "running"
                              /\ UNCHANGED loop_error
                         [] r.kind = "unreachable" ->
                              /\ reader' = "panicked"
                              /\ UNCHANGED <<rx_packet, loop_error, channel_log>>
                         [] OTHER ->
                              /\ reader' = "failed"
                              /\ loop_error' = Some(r)
                              /\ UNCHANGED <<rx_packet, channel_log>>
    /\ UNCHANGED <<calibrator_window, app_pc, response, calibrator, tx_exit,
                   current_config, original_config, config_file, stage_samples,
                   last_capture>>
    /\ UNCHANGED <<driverVars, expected_tag, pureVars, input>>

InitExit == InitCalib

NextExit ==
    \/ \E clicked \in BOOLEAN : update_deactivated({}, clicked)
    \/ read_packets_try_recv
    \/ \E frame \in ExitFrames, outcome \in PollOutcomes : read_packets_poll(frame, outcome)
    \/ process_input_recv
    \/ \E escape \in BOOLEAN : process_input_keys(escape, FALSE)
    \/ update_finish
    \/ exit_join

\* the scheduler lets the reader thread run (poll returns at the latest
\* after PACKET_TIMEOUT_MS), and join returns once the thread has ended
SpecExitFair ==
    /\ InitExit
    /\ [][NextExit]_vars
    /\ WF_vars(read_packets_try_recv)
    /\ WF_vars(\E frame \in ExitFrames, outcome \in PollOutcomes :
                  read_packets_poll(frame, outcome))
    /\ WF_vars(exit_join)

(***************************************************************************)
(* The read loops: process_packets of the driver with the handler of       *)
(* virtual_mouse, and read_packets of the calibrator's reader thread.      *)
(***************************************************************************)
\* the frames the device delivers to the driver: a finger down at
\* (2050, 2050) or (2069, 2074), a finger up, a frame with a foreign tag, one
\* with X beyond its resolution and one with both resolution bits set
DriverFrames ==
    {RawPacket(<<2, 3, 2, 8, 2, 8>>), RawPacket(<<2, 3, 26, 8, 21, 8>>),
     RawPacket(<<2, 2, 2, 8, 2, 8>>), RawPacket(<<170, 3, 2, 8, 2, 8>>),
     RawPacket(<<2, 3, 2, 8, 2, 17>>), RawPacket(<<2, 7, 2, 8, 2, 8>>)}

\* what read_exact and SystemTime::now give one iteration
DriverOutcomes == {"frame", "eof", "time_error"}

\* one iteration of the loop of process_packets with f the closure of
\* virtual_mouse: read_exact, the clock, the decoding (Packet::try_from, a
\* touch event frame) and f, each ending the loop with its error
process_packets(frame, delay, outcome) ==
    /\ status = "running"
    /\ reader = "none"
    /\ nread < MaxSteps
    /\ IF outcome = "eof"
       THEN /\ status' = "io_error"
            /\ loop_error' = Some(Err("IOError", 0))
            /\ UNCHANGED <<raw_packet, parsed, nread, clock, state, events, vm, frames, out>>
       ELSE /\ raw_packet' = frame
            /\ nread' = nread + 1
            /\ IF outcome = "time_error"
               THEN /\ status' = "time_error"
                    /\ loop_error' = Some(Err("TimeError", 0))
                    /\ UNCHANGED <<parsed, clock, state, events, vm, frames, out>>
               ELSE LET now == clock + delay
                        p == try_parse(frame, Some(TouchEvent))
                    IN /\ clock' = now
                       /\ parsed' = Some(p)
                       /\ CASE p.kind = "Ok" ->
                                 LET d == unwrap(p.val)
                                     packet == [touch_state |-> d.touch_state,
                                                x |-> d.position.x,
                                                y |-> d.position.y, time |-> now]
                                     r == update(state, monitor_cfg, packet, now)
                                 IN /\ state' = r.state
                                    /\ frames' = Append(frames, [packet |-> packet,
                                                                  now |-> now, pre |-> state])
                                    /\ IF r.panic
                                       THEN /\ status' = "panic"
                                            /\ UNCHANGED <<events, vm, out, loop_error>>
                                       ELSE /\ events' = r.events
                                            /\ out' = Append(out, r.events)
                                            /\ \E fail \in FailingWrites \cup {Len(r.events) + 1} :
                                                  /\ vm' = send_events(vm, r.events, fail)
                                                  /\ IF fail <= Len(r.events)
                                                     THEN /\ status' = "io_error"
                                                          /\ loop_error' = Some(Err("IOError", 0))
                                                     ELSE UNCHANGED <<status, loop_error>>
                            [] p.kind = "unreachable" ->
                                 /\ status' = "panic"
                                 /\ UNCHANGED <<state, events, vm, frames, out, loop_error>>
                            [] OTHER ->
                                 /\ status' = "decode_error"
                                 /\ loop_error' = Some(p)
                                 /\ UNCHANGED <<state, events, vm, frames, out>>
    /\ UNCHANGED <<monitor_cfg, expected_tag>>
    /\ UNCHANGED <<appVars, pureVars>>

\* either program with its loop entered: the driver after virtual_mouse has
\* made its device, or the settings editor after start_calibration
InitRead ==
    /\ state = DriverState_default
    /\ clock = 0
    /\ events = << >>
    /\ vm = << >>
    /\ frames = << >>
    /\ out = << >>
    /\ monitor_cfg = CHOOSE c \in Configs : c.calibration_points.x1 /= c.calibration_points.x2
    /\ InitParseIdle
    /\ InitReadIdle
    /\ app_pc = "idle"
    /\ response = None
    /\ calibrator = Calibrator_new
    /\ rx_packet = << >>
    /\ tx_exit = 0
    /\ current_config = SerializedConfig_default
    /\ original_config = SerializedConfig_default
    /\ config_file = SerializedConfig_default
    /\ stage_samples = << >>
    /\ last_capture = None
    /\ channel_log = ChannelLog_new
    /\ input = Input_new(SerializedConfig_default)
    /\ solver_in = << >>
    /\ \/ status = "running" /\ calibrator_window = "Deactivated" /\ reader = "none"
       \/ status = "idle" /\ calibrator_window = "Running" /\ reader = "running"

NextRead ==
    \/ \E frame \in DriverFrames, delay \in Delays, outcome \in DriverOutcomes :
          process_packets(frame, delay, outcome)
    \/ \E frame \in CalibFrames, outcome \in ReadOutcomes : packet_reader(frame, outcome)

SpecRead == InitRead /\ [][NextRead]_vars

(***************************************************************************)
(* The solver of the calibrator alone: OngoingState::advance applied to    *)
(* the four coordinates of a session.  The coordinates are either any four *)
(* of SolvePoints or the points at which the four circles are drawn for a  *)
(* target box: CALIBRATION_CIRCLE_POSIIONS, the offset and its complement  *)
(* on each axis, in the order top-left, bottom-left, top-right,            *)
(* bottom-right.                                                           *)
(***************************************************************************)
CIRCLE_OFFSET == [m |-> 10066330, e |-> 26]

ONE_MINUS_CIRCLE_OFFSET == f32_one_minus(CIRCLE_OFFSET)

SolvePoints ==
    {Point(0, 0), Point(313, 3603), Point(4095, 14), Point(2051, 2049),
     Point(16383, 16383)}

TargetRanges ==
    {Range_new(300, 3800), Range_new(0, 4095), Range_new(14, 2814),
     Range_new(7, 16380), Range_new(2050, 2050), Range_new(1000, 1003)}

TargetBoxes ==
    {AABB_new(rx.min, ry.min, rx.max, ry.max) : rx \in TargetRanges, ry \in TargetRanges}

TargetCaptures(B) ==
    LET lo_x == lerp(xrange(B), CIRCLE_OFFSET)
        hi_x == lerp(xrange(B), ONE_MINUS_CIRCLE_OFFSET)
        lo_y == lerp(yrange(B), CIRCLE_OFFSET)
        hi_y == lerp(yrange(B), ONE_MINUS_CIRCLE_OFFSET)
    IN <<Point(lo_x, lo_y), Point(lo_x, hi_y), Point(hi_x, lo_y), Point(hi_x, hi_y)>>

SolveInputs ==
    {<<c0, c1, c2, c3>> : c0 \in SolvePoints, c1 \in SolvePoints,
                          c2 \in SolvePoints, c3 \in SolvePoints}
    \cup {TargetCaptures(B) : B \in TargetBoxes}

InitSolve ==
    /\ InitDriver
    /\ monitor_cfg = CHOOSE c \in Configs : c.calibration_points.x1 /= c.calibration_points.x2
    /\ InitParseIdle
    /\ InitReadIdle
    /\ calibrator_window = "Running"
    /\ app_pc = "idle"
    /\ response = None
    /\ calibrator = Calibrator_new
    /\ rx_packet = << >>
    /\ tx_exit = 0
    /\ reader = "none"
    /\ current_config = SerializedConfig_default
    /\ original_config = SerializedConfig_default
    /\ config_file = SerializedConfig_default
    /\ stage_samples = << >>
    /\ last_capture = None
    /\ channel_log = ChannelLog_new
    /\ input = Input_new(SerializedConfig_default)
    /\ solver_in \in SolveInputs

solver_advance ==
    /\ solver_in /= << >>
    /\ calibrator.state.kind = "Ongoing"
    /\ calibrator' = [calibrator EXCEPT
                         !.state = advance(@, solver_in[Len(@.stage) + 1])]
    /\ UNCHANGED <<calibrator_window, app_pc, response, rx_packet, tx_exit, reader,
                   current_config, original_config, config_file, stage_samples,
                   last_capture, channel_log, pureVars, input>>
    /\ UNCHANGED <<driverVars, parseVars, readVars>>

NextSolve == solver_advance

SpecSolve == InitSolve /\ [][NextSolve]_vars

(***************************************************************************)
(* The calibrator alone: Calibrator::process_packet on the packets of a    *)
(* session in any order, without the channel and the GUI around it.  The   *)
(* packets are decoded frames: a finger down at an odd position near the   *)
(* upper left corner (the frame of test_parse_touch_upper_left), at a      *)
(* position near the lower right corner and at one between them, and a     *)
(* finger up at the first position.                                        *)
(***************************************************************************)
MaxPackets == 8

CloudFrames ==
    {RawPacket(<<2, 3, 53, 1, 57, 1>>), RawPacket(<<2, 3, 16, 14, 116, 14>>),
     RawPacket(<<2, 3, 55, 1, 0, 8>>), RawPacket(<<2, 2, 53, 1, 57, 1>>)}

CloudPackets == {unwrap(try_parse(f, Some(TouchEvent)).val) : f \in CloudFrames}

InitCloud ==
    /\ InitDriver
    /\ monitor_cfg = CHOOSE c \in Configs : c.calibration_points.x1 /= c.calibration_points.x2
    /\ InitParseIdle
    /\ InitReadIdle
    /\ calibrator_window = "Running"
    /\ app_pc = "idle"
    /\ response = None
    /\ calibrator = Calibrator_new
    /\ rx_packet = << >>
    /\ tx_exit = 0
    /\ reader = "running"
    /\ current_config = SerializedConfig_default
    /\ original_config = SerializedConfig_default
    /\ config_file = SerializedConfig_default
    /\ stage_samples = << >>
    /\ last_capture = None
    /\ channel_log = ChannelLog_new
    /\ input = Input_new(SerializedConfig_default)
    /\ solver_in = << >>
    /\ geo = Geo_default

\* Calibrator::process_packet on a message that was sent and received
calibrator_process_packet(packet) ==
    /\ app_pc = "idle"
    /\ channel_log.sent < MaxPackets
    /\ \E r \in {Calibrator_process_packet(calibrator, packet)} :
       \E cw \in {IF calibrator.state.kind = "Ongoing"
                  THEN calibrate_with_packet(calibrator.state, packet)
                  ELSE [self |-> calibrator.state, result |-> None, panic |-> FALSE]} :
       LET ongoing == calibrator.state.kind = "Ongoing"
           advances == ongoing /\ cw.result /= None
       IN /\ channel_log' = [channel_log EXCEPT
                                !.sent = @ + 1,
                                !.processed = Append(@, channel_log.sent + 1)]
          /\ IF r.panic
             THEN /\ app_pc' = "panic"
                  /\ UNCHANGED <<calibrator, stage_samples, last_capture>>
             ELSE /\ app_pc' = app_pc
                  /\ calibrator' = [state |-> r.state, decals |-> r.decals]
                  /\ stage_samples' = IF advances THEN << >>
                                      ELSE IF ongoing THEN Append(stage_samples, packet)
                                      ELSE stage_samples
                  /\ last_capture' =
                        IF advances
                        THEN Some([cloud |-> cw.self.touch_cloud,
                                   samples |-> Append(stage_samples, packet),
                                   coord |-> unwrap(compute_touch_coord(cw.self.touch_cloud))])
                        ELSE None
    /\ UNCHANGED <<calibrator_window, response, rx_packet, tx_exit, reader,
                   current_config, original_config, config_file>>
    /\ UNCHANGED <<driverVars, parseVars, readVars, pureVars, input>>

NextCloud == \E packet \in CloudPackets : calibrator_process_packet(packet)

SpecCloud == InitCloud /\ [][NextCloud]_vars

(***************************************************************************)
(* The main view of the settings editor: App::update with                  *)
(* calibrator_window Deactivated, in a frame without a key or a click in   *)
(* which the text of one of the two text fields was changed.               *)
(***************************************************************************)
\* what a field can hold after a change: nothing, 250, 40, -5, +7, a letter
\* and 1500
EditTexts ==
    {<< >>, <<"2", "5", "0">>, <<"4", "0">>, <<"-", "5">>, <<"+", "7">>, <<"a">>,
     <<"1", "5", "0", "0">>}

\* App::draw, the has-moved-threshold field reports changed()
draw_has_moved_changed(text) ==
    /\ calibrator_window = "Deactivated"
    /\ app_pc = "idle"
    /\ text /= input.has_moved
    /\ input' = [input EXCEPT !.has_moved = text]
    /\ current_config' =
          IF parse_f32(text) /= None
          THEN [current_config EXCEPT
                   !.common.has_moved_threshold = unwrap(parse_f32(text))]
          ELSE current_config
    /\ UNCHANGED <<calibrator_window, app_pc, response, calibrator, rx_packet, tx_exit,
                   reader, original_config, config_file, stage_samples, last_capture,
                   channel_log>>
    /\ UNCHANGED <<driverVars, parseVars, readVars>>
    /\ UNCHANGED pureVars

\* App::draw, the right-click-wait field reports changed()
draw_right_click_wait_changed(text) ==
    /\ calibrator_window = "Deactivated"
    /\ app_pc = "idle"
    /\ text /= input.right_click_wait
    /\ input' = [input EXCEPT !.right_click_wait = text]
    /\ current_config' =
          IF parse_u64(input.has_moved) /= None
          THEN [current_config EXCEPT
                   !.common.right_click_wait_ms = unwrap(parse_u64(input.has_moved))]
          ELSE current_config
    /\ UNCHANGED <<calibrator_window, app_pc, response, calibrator, rx_packet, tx_exit,
                   reader, original_config, config_file, stage_samples, last_capture,
                   channel_log>>
    /\ UNCHANGED <<driverVars, parseVars, readVars>>
    /\ UNCHANGED pureVars

InitEdit == InitCalib

NextEdit ==
    \/ \E text \in EditTexts : draw_has_moved_changed(text)
    \/ \E text \in EditTexts : draw_right_click_wait_changed(text)

SpecEdit == InitEdit /\ [][NextEdit]_vars

(***************************************************************************)
(* The geometry of geo.rs alone: an AABB is made by a constructor and      *)
(* changed by union, grow_to_point and translate; a Range is made by       *)
(* Range::new, the From conversion, xrange or yrange, and a value inside   *)
(* it goes through linear_factor and lerp.  The arguments are unordered,   *)
(* negative and extreme values of i32.  An addition that overflows panics  *)
(* in a build that checks overflow and wraps in one that does not.         *)
(***************************************************************************)
GeoTuples ==
    {<<0, 0, 1920, 1080>>, <<3800, 3800, 300, 300>>, <<-5, 7, -9, -2>>,
     <<I32_MAX, -I32_MAX - 1, 1, -1>>}

GeoPoints == {Point(-20, 4000), Point(5, 5), Point(I32_MAX, -I32_MAX - 1)}

GeoShifts == {<<1, -3000>>, <<I32_MAX, -I32_MAX - 1>>}

GeoPairs == {<<0, 4095>>, <<3800, 300>>, <<-16071, -3764>>, <<5, 5>>, <<-40, 37>>}

Builds == {"debug", "release"}

\* values of a range: its ends, their neighbours inside, and two between
LerpValues(r) ==
    IF -32768 < r.min /\ r.min < 32768 /\ -32768 < r.max /\ r.max < 32768
    THEN {v \in {r.min, r.min + 1, r.max - 1, r.max, -4928, 16, 2050} :
             r.min <= v /\ v <= r.max}
    ELSE {}

InitGeo ==
    /\ InitDriver
    /\ monitor_cfg = CHOOSE c \in Configs : c.calibration_points.x1 /= c.calibration_points.x2
    /\ InitParseIdle
    /\ loop_error = None
    /\ nread = 0
    /\ InitApp
    /\ geo = Geo_default

GeoStep(g) ==
    /\ ~geo.panic
    /\ geo.n < MaxOps
    /\ geo' = [g EXCEPT !.n = geo.n + 1]
    /\ UNCHANGED <<driverVars, parseVars, readVars, appVars, solver_in>>

\* a constructor makes a new AABB; the one at hand becomes the second one
geo_new(t) ==
    GeoStep([geo EXCEPT !.rhs = geo.aabb, !.aabb = AABB_new(t[1], t[2], t[3], t[4])])

geo_new_wh(t, build) ==
    IF build = "debug" /\ (add_overflows(t[1], t[3]) \/ add_overflows(t[2], t[4]))
    THEN GeoStep([geo EXCEPT !.panic = TRUE])
    ELSE GeoStep([geo EXCEPT !.rhs = geo.aabb,
                             !.aabb = AABB_new_wh(t[1], t[2], t[3], t[4])])

geo_from(t) == GeoStep([geo EXCEPT !.rhs = geo.aabb, !.aabb = AABB_from(t)])

geo_default == GeoStep([geo EXCEPT !.rhs = geo.aabb, !.aabb = AABB_default])

geo_union == GeoStep([geo EXCEPT !.aabb = union(geo.aabb, geo.rhs)])

geo_grow_to_point(point) == GeoStep([geo EXCEPT !.aabb = grow_to_point(geo.aabb, point)])

geo_translate(d, build) ==
    IF build = "debug" /\ (\/ add_overflows(geo.aabb.x1, d[1])
                           \/ add_overflows(geo.aabb.x2, d[1])
                           \/ add_overflows(geo.aabb.y1, d[2])
                           \/ add_overflows(geo.aabb.y2, d[2]))
    THEN GeoStep([geo EXCEPT !.panic = TRUE])
    ELSE GeoStep([geo EXCEPT !.aabb = translate(geo.aabb, d[1], d[2])])

geo_range_new(t) == GeoStep([geo EXCEPT !.range = Range_new(t[1], t[2]), !.out = None])

geo_range_from(t) == GeoStep([geo EXCEPT !.range = Range_from(t), !.out = None])

geo_xrange == GeoStep([geo EXCEPT !.range = xrange(geo.aabb), !.out = None])

geo_yrange == GeoStep([geo EXCEPT !.range = yrange(geo.aabb), !.out = None])

\* lerp(linear_factor(v)) for a value inside a range of coordinates
geo_lerp(v) ==
    /\ geo.range.min <= v /\ v <= geo.range.max
    /\ GeoStep([geo EXCEPT !.out = Some([v |-> v,
                                         r |-> lerp(geo.range, linear_factor(geo.range, v))])])

NextGeo ==
    \/ \E t \in GeoTuples : geo_new(t)
    \/ \E t \in GeoTuples, build \in Builds : geo_new_wh(t, build)
    \/ \E t \in GeoTuples : geo_from(t)
    \/ geo_default
    \/ geo_union
    \/ \E point \in GeoPoints : geo_grow_to_point(point)
    \/ \E d \in GeoShifts, build \in Builds : geo_translate(d, build)
    \/ \E t \in GeoPairs : geo_range_new(t)
    \/ \E t \in GeoPairs : geo_range_from(t)
    \/ geo_xrange
    \/ geo_yrange
    \/ \E v \in LerpValues(geo.range) : geo_lerp(v)

SpecGeo == InitGeo /\ [][NextGeo]_vars

(***************************************************************************)
(* The mapping of the driver: Driver::update on samples at, inside and     *)
(* outside the calibration rectangle, for a monitor at the origin of the   *)
(* screen, a second monitor to its right, a monitor that is the whole      *)
(* screen, and a calibration rectangle of zero length on the X axis.       *)
(***************************************************************************)
MoveConfigs ==
    {[calibration_points |-> AABB_new(300, 300, 3800, 3800),
      monitor_area |-> AABB_new(0, 0, 1920, 1080),
      screen_space |-> AABB_new(0, 0, 3840, 1080)],
     [calibration_points |-> AABB_new(300, 300, 3800, 3800),
      monitor_area |-> AABB_new(1920, 0, 3840, 1080),
      screen_space |-> AABB_new(0, 0, 3840, 1080)],
     [calibration_points |-> AABB_new(300, 300, 3800, 3800),
      monitor_area |-> AABB_new(0, 0, 1920, 1080),
      screen_space |-> AABB_new(0, 0, 1920, 1080)],
     [calibration_points |-> AABB_new(2050, 300, 2050, 3800),
      monitor_area |-> AABB_new(1920, 0, 3840, 1080),
      screen_space |-> AABB_new(0, 0, 3840, 1080)]}

MovePoints ==
    {Point(300, 300), Point(3800, 3800), Point(2050, 2051), Point(299, 3801),
     Point(3801, 299), Point(0, 4095), Point(4095, 0)}

MoveSamples ==
    {[touch_state |-> ts, x |-> p.x, y |-> p.y] : ts \in TouchState, p \in MovePoints}

InitMove ==
    /\ InitDriver
    /\ monitor_cfg \in MoveConfigs
    /\ InitParseIdle
    /\ InitReadIdle
    /\ InitApp

NextMove ==
    \E sample \in MoveSamples :
        /\ Len(frames) < MaxMoves
        /\ process_packet(sample, RIGHT_CLICK_THRESHOLD)

SpecMove == InitMove /\ [][NextMove]_vars

TypeOK ==
    /\ state.touch_state \in TouchState
    /\ status \in {"running", "idle", "io_error", "time_error", "decode_error", "panic"}
    /\ Len(frames) <= MaxSteps
    /\ calibrator_window \in {"Deactivated", "Running"}
    /\ app_pc \in {"idle", "finish", "join", "closed", "panic"}
    /\ reader \in {"none", "running", "polling", "exited", "failed", "panicked"}
    /\ tx_exit \in 0 .. 1

(***************************************************************************)
(* Reading the histories.                                                  *)
(***************************************************************************)
IsKey(e, btn, value) == e.type = "EV_KEY" /\ e.code = btn /\ e.value = value
IsButton(e) == e.type = "EV_KEY"

\* how often an event (btn, value) occurs in a batch
KeyCount(batch, btn, value) ==
    Cardinality({k \in 1 .. Len(batch) : IsKey(batch[k], btn, value)})

ButtonCount(batch) == Cardinality({k \in 1 .. Len(batch) : IsButton(batch[k])})

\* the update number i is a touch start, a hold, a release
IsStart(i) == frames[i].pre.touch_state = NotTouching /\ frames[i].packet.touch_state = IsTouching
IsHold(i) == frames[i].pre.touch_state = IsTouching /\ frames[i].packet.touch_state = IsTouching
IsRelease(i) == frames[i].pre.touch_state = IsTouching /\ frames[i].packet.touch_state = NotTouching

\* updates j..i are the start of a touch and touching samples of the same touch
SameTouch(j, i) ==
    /\ j <= i
    /\ IsStart(j)
    /\ \A k \in (j + 1) .. i : frames[k].packet.touch_state = IsTouching

Position(i) == Point(frames[i].packet.x, frames[i].packet.y)

\* sample i lies farther than has_moved_threshold from sample j
Drifted(j, i) ==
    euc_distance_to_sq(Position(j), Position(i)) > HAS_MOVED_THRESHOLD * HAS_MOVED_THRESHOLD

\* sample i arrived more than right_click_wait after sample j
Late(j, i) == frames[i].now - frames[j].now > RIGHT_CLICK_THRESHOLD

\* the number of frames whose batch was written completely
Written == IF status = "io_error" THEN Len(out) - 1 ELSE Len(out)

\* the batches that update returned for the frames 1..n, one after the other
RECURSIVE Flatten(_)
Flatten(n) == IF n = 0 THEN << >> ELSE Flatten(n - 1) \o out[n]

BatchShape(b, time) ==
    /\ Len(b) >= 3
    /\ \A k \in 1 .. Len(b) : b[k].time = time
    /\ \A k \in 1 .. (Len(b) - 3) : IsButton(b[k])
    /\ b[Len(b) - 2].type = "EV_ABS" /\ b[Len(b) - 2].code = "ABS_X"
    /\ b[Len(b) - 1].type = "EV_ABS" /\ b[Len(b) - 1].code = "ABS_Y"
    /\ b[Len(b)].type = "EV_SYN" /\ b[Len(b)].code = "SYN_REPORT"

(***************************************************************************)
(* C1: the sink holds, frame after frame in the order of the frames, one   *)
(* batch per frame that was written: the button events that update         *)
(* returned for the frame, then one ABS_X move, one ABS_Y move and one     *)
(* SYN_REPORT as the last event; what follows the last complete batch is   *)
(* the part of the failing frame's batch written before the write error.   *)
(***************************************************************************)
C1_SinkOrder ==
    status /= "panic" =>
        /\ \A n \in 1 .. Len(out) :
              /\ BatchShape(out[n], frames[n].packet.time)
              /\ n > 1 => frames[n - 1].packet.time < frames[n].packet.time
        /\ LET done == Flatten(Written)
               rest == SubSeq(vm, Len(done) + 1, Len(vm))
           IN /\ Len(vm) >= Len(done)
              /\ SubSeq(vm, 1, Len(done)) = done
              /\ IF status = "io_error"
                 THEN /\ Len(rest) < Len(out[Len(out)])
                      /\ rest = SubSeq(out[Len(out)], 1, Len(rest))
                 ELSE rest = << >>

\* three frames were written, one of them with two button events
C1_Witness ==
    /\ status = "running"
    /\ Written >= 3
    /\ Len(vm) > 9
    /\ \E n \in 1 .. Written : Len(out[n]) = 5

\* a right-button press was emitted in one of the updates j..i
RightPressIn(j, i) == \E k \in j .. i : KeyCount(out[k], BTN_RIGHT, 1) > 0

(***************************************************************************)
(* C2 as stated: every batch returned by update holds at most one button   *)
(* event.                                                                  *)
(***************************************************************************)
C2_AtMostOneButton == \A n \in 1 .. Len(out) : ButtonCount(out[n]) <= 1

(***************************************************************************)
(* C2 amended: every batch returned by update holds at most two button     *)
(* events and at most one press; it holds two only in the release update   *)
(* of a touch in which a right-click was started, and they are the left    *)
(* release followed by the right release.                                  *)
(***************************************************************************)
C2_ButtonsPerBatch ==
    \A n \in 1 .. Len(out) :
        /\ ButtonCount(out[n]) <= 2
        /\ KeyCount(out[n], BTN_LEFT, 1) + KeyCount(out[n], BTN_RIGHT, 1) <= 1
        /\ ButtonCount(out[n]) = 2 =>
              /\ IsRelease(n)
              /\ \E j \in 1 .. (n - 1) : SameTouch(j, n - 1) /\ RightPressIn(j, n - 1)
              /\ IsKey(out[n][1], BTN_LEFT, 0)
              /\ IsKey(out[n][2], BTN_RIGHT, 0)

\* a release update returned the two releases
C2_Witness ==
    \E n \in 1 .. Len(out) : IsRelease(n) /\ ButtonCount(out[n]) = 2

(***************************************************************************)
(* C3: a left press is emitted exactly in the updates whose stored touch   *)
(* state is NotTouching and whose sample is touching, a left release       *)
(* exactly in those whose stored state is IsTouching and whose sample is   *)
(* not touching; left presses and releases alternate, starting with a      *)
(* press; the left button is down after an update iff the stored touch     *)
(* state is IsTouching.                                                    *)
(***************************************************************************)
LeftEvents == SelectSeq(Flatten(Len(out)), LAMBDA e : e.type = "EV_KEY" /\ e.code = BTN_LEFT)

C3_LeftButton ==
    status /= "panic" =>
        /\ \A n \in 1 .. Len(out) :
              /\ KeyCount(out[n], BTN_LEFT, 1) = (IF IsStart(n) THEN 1 ELSE 0)
              /\ KeyCount(out[n], BTN_LEFT, 0) = (IF IsRelease(n) THEN 1 ELSE 0)
        /\ \A k \in 1 .. Len(LeftEvents) : LeftEvents[k].value = k % 2
        /\ (Len(LeftEvents) % 2 = 1) <=> (state.touch_state = IsTouching)

\* two touches were started and the first one released
C3_Witness ==
    /\ Len(LeftEvents) >= 3
    /\ state.touch_state = IsTouching
    /\ \E n \in 1 .. Len(out) : IsHold(n)

(***************************************************************************)
(* C4: in a touch whose touching samples all stay within                   *)
(* has_moved_threshold of the origin, the first touching sample that       *)
(* arrives more than right_click_wait after the start emits a right press; *)
(* a touch emits at most one right press, and only in an update of a       *)
(* touching sample, before the update that releases the left button.       *)
(***************************************************************************)
C4_RightPress ==
    status /= "panic" =>
        /\ \A j \in 1 .. Len(out) : \A i \in (j + 1) .. Len(out) :
              ( /\ SameTouch(j, i)
                /\ \A k \in j .. i : ~Drifted(j, k)
                /\ Late(j, i)
                /\ \A k \in (j + 1) .. (i - 1) : ~Late(j, k) )
              => KeyCount(out[i], BTN_RIGHT, 1) = 1
        /\ \A n \in 1 .. Len(out) :
              /\ KeyCount(out[n], BTN_RIGHT, 1) <= 1
              /\ KeyCount(out[n], BTN_RIGHT, 1) = 1 =>
                    /\ IsHold(n)
                    /\ KeyCount(out[n], BTN_LEFT, 0) = 0
        /\ \A j \in 1 .. Len(out) : \A i1 \in j .. Len(out) : \A i2 \in (i1 + 1) .. Len(out) :
              SameTouch(j, i2) =>
                  ~(KeyCount(out[i1], BTN_RIGHT, 1) > 0 /\ KeyCount(out[i2], BTN_RIGHT, 1) > 0)

\* a still touch got its right press, a further touching sample, and was released
C4_Witness ==
    \E j \in 1 .. Len(out) : \E i \in (j + 1) .. Len(out) :
        /\ Len(out) = i + 2
        /\ IsRelease(i + 2)
        /\ SameTouch(j, i + 1)
        /\ \A k \in j .. (i + 1) : ~Drifted(j, k)
        /\ Late(j, i)
        /\ KeyCount(out[i], BTN_RIGHT, 1) = 1

(***************************************************************************)
(* C5: once a touching sample of a touch lies farther than                 *)
(* has_moved_threshold from the origin with no right press emitted before  *)
(* it, no update of that touch from that sample on emits a right press.    *)
(***************************************************************************)
C5_MovedSuppresses ==
    status /= "panic" =>
        \A j \in 1 .. Len(out) : \A m \in (j + 1) .. Len(out) : \A i \in m .. Len(out) :
            ( /\ SameTouch(j, i)
              /\ Drifted(j, m)
              /\ ~RightPressIn(j, m - 1) )
            => KeyCount(out[i], BTN_RIGHT, 1) = 0

\* the finger drifted, then came back to the origin and stayed past the wait
C5_Witness ==
    \E j \in 1 .. Len(out) : \E m \in (j + 1) .. Len(out) : \E i \in (m + 1) .. Len(out) :
        /\ SameTouch(j, i)
        /\ Drifted(j, m)
        /\ ~RightPressIn(j, m - 1)
        /\ Position(i) = Position(j)
        /\ Late(j, i)

(***************************************************************************)
(* C6: a right release is emitted exactly in the release update of a touch *)
(* in which a right press was emitted, once, after the left release of the *)
(* same batch; right presses minus right releases is 0 or 1, and 0         *)
(* whenever the stored touch state is NotTouching.                         *)
(***************************************************************************)
RightEvents == SelectSeq(Flatten(Len(out)), LAMBDA e : e.type = "EV_KEY" /\ e.code = BTN_RIGHT)

RightDown ==
    Cardinality({k \in 1 .. Len(RightEvents) : RightEvents[k].value = 1})
    - Cardinality({k \in 1 .. Len(RightEvents) : RightEvents[k].value = 0})

C6_RightRelease ==
    status /= "panic" =>
        /\ \A n \in 1 .. Len(out) :
              /\ KeyCount(out[n], BTN_RIGHT, 0) =
                    (IF IsRelease(n) /\ \E j \in 1 .. (n - 1) :
                            SameTouch(j, n - 1) /\ RightPressIn(j, n - 1)
                     THEN 1 ELSE 0)
              /\ \A k \in 1 .. Len(out[n]) :
                    IsKey(out[n][k], BTN_RIGHT, 0) =>
                        \E l \in 1 .. (k - 1) : IsKey(out[n][l], BTN_LEFT, 0)
        /\ RightDown \in {0, 1}
        /\ state.touch_state = NotTouching => RightDown = 0
        /\ \A k \in 1 .. Len(RightEvents) : RightEvents[k].value = k % 2

\* a touch with a right-click has ended
C6_Witness ==
    /\ state.touch_state = NotTouching
    /\ Len(RightEvents) = 2
    /\ IsRelease(Len(out))

(***************************************************************************)
(* C7: whenever the stored touch state is NotTouching, is_right_click and  *)
(* has_moved are false and touch_start_time and touch_origin are None; so  *)
(* every touch starts with both flags clear.                               *)
(***************************************************************************)
Cleared(st) ==
    /\ st.is_right_click = FALSE
    /\ st.has_moved = FALSE
    /\ st.touch_start_time = None
    /\ st.touch_origin = None

C7_NotTouchingCleared ==
    /\ state.touch_state = NotTouching => Cleared(state)
    /\ \A n \in 1 .. Len(frames) : IsStart(n) => Cleared(frames[n].pre)

\* a touch that drifted has ended and a new one starts
C7_Witness ==
    /\ \E n \in 1 .. Len(frames) : IsRelease(n) /\ frames[n].pre.has_moved
    /\ Len(frames) >= 3
    /\ IsStart(Len(frames))

(***************************************************************************)
(* C8: update never panics: whenever the stored touch state is IsTouching, *)
(* touch_origin and touch_start_time are present, also with a calibration  *)
(* box of zero width and height.                                           *)
(***************************************************************************)
C8_NoPanic ==
    /\ status /= "panic"
    /\ state.touch_state = IsTouching =>
          state.touch_origin /= None /\ state.touch_start_time /= None

\* both unwrap calls were executed under a calibration box of zero length
C8_Witness ==
    /\ monitor_cfg.calibration_points.x1 = monitor_cfg.calibration_points.x2
    /\ monitor_cfg.calibration_points.y1 = monitor_cfg.calibration_points.y2
    /\ \E n \in 1 .. Len(out) :
          /\ IsHold(n)
          /\ ~frames[n].pre.is_right_click
          /\ ~frames[n].pre.has_moved
          /\ ~Drifted(n - 1, n)
          /\ IsStart(n - 1)

(***************************************************************************)
(* C9 as stated: try_parse returns a decoded packet, UnexpectedTag or      *)
(* WrongResolution for every frame and expected tag; the unreachable!()    *)
(* arm of the resolution match is never reached.                           *)
(***************************************************************************)
C9_UnreachableNotReached ==
    parsed /= None => unwrap(parsed).kind \in {"Ok", "UnexpectedTag", "WrongResolution"}

(***************************************************************************)
(* C10: a frame that try_parse accepts decodes to touch_state IsTouching   *)
(* iff bit 0 of frame[1] is set, y = frame[3]*256 + frame[2],              *)
(* x = frame[5]*256 + frame[4] and the resolution the table gives for      *)
(* frame[1] & 0x06.                                                        *)
(***************************************************************************)
\* bits 1 and 2 of a byte, in place: b & 0x06
ResolutionBits(b) == 2 * ((b \div 2) % 4)

ReferenceResolution(b) ==
    CASE ResolutionBits(b) = 0 -> 11
      [] ResolutionBits(b) = 2 -> 12
      [] ResolutionBits(b) = 4 -> 13
      [] ResolutionBits(b) = 5 -> 14
      [] OTHER -> 0

C10_ReferenceDecoding ==
    (parsed /= None /\ unwrap(parsed).kind = "Ok") =>
        LET p == unwrap(unwrap(parsed).val)
        IN /\ (p.touch_state = IsTouching) <=> (raw_packet[1] % 2 = 1)
           /\ p.touch_state \in TouchState
           /\ p.position.y = raw_packet[3] * 256 + raw_packet[2]
           /\ p.position.x = raw_packet[5] * 256 + raw_packet[4]
           /\ p.resolution = ReferenceResolution(raw_packet[1])

\* the frame of test_parse_touch_upper_left was decoded
C10_Witness ==
    /\ raw_packet = RawPacket(<<2, 3, 59, 1, 50, 1>>)
    /\ expected_tag = Some(TouchEvent)
    /\ parsed = Some(Ok([touch_state |-> IsTouching,
                         position |-> Point(306, 315),
                         resolution |-> 12]))

(***************************************************************************)
(* C11: when an expected tag is given and frame[0] differs from it,        *)
(* try_parse fails with UnexpectedTag(frame[0]) whatever the other five    *)
(* bytes are; when no tag is expected, the result is the same for every    *)
(* value of frame[0].                                                      *)
(***************************************************************************)
\* values of frame[0] to replace the one of the frame with
OtherTags == {0, 2, 170, 255}

C11_TagCheckedFirst ==
    parsed /= None =>
        /\ (expected_tag /= None /\ raw_packet[0] /= unwrap(expected_tag)) =>
              unwrap(parsed) = Err("UnexpectedTag", raw_packet[0])
        /\ expected_tag = None =>
              \A t \in OtherTags :
                  unwrap(parsed) = try_parse([raw_packet EXCEPT ![0] = t], None)

\* a frame with a foreign tag whose Y and X both overflow every resolution
\* was rejected for its tag, and the same frame was decoded with no tag
\* expected
C11_Witness ==
    /\ raw_packet[0] = 170
    /\ raw_packet[3] = 255
    /\ raw_packet[5] = 255
    /\ \/ /\ expected_tag = Some(TouchEvent)
          /\ parsed = Some(Err("UnexpectedTag", 170))
       \/ /\ expected_tag = None
          /\ parsed = Some(Err("WrongResolution", "Y"))

(***************************************************************************)
(* C12 as stated: a frame that passes the tag check fails with             *)
(* WrongResolution(Y) iff y >> resolution /= 0, fails with                 *)
(* WrongResolution(X) iff y fits and x >> resolution /= 0, and succeeds    *)
(* otherwise, and a decoded position fits its resolution on both axes.     *)
(***************************************************************************)
\* the resolutions the table of the specification can give for frame[1]
Resolutions(b) ==
    IF ReferenceResolution(b) = 0 THEN 11 .. 14 ELSE {ReferenceResolution(b)}

C12_ResolutionChecks ==
    (parsed /= None
        /\ (expected_tag = None \/ raw_packet[0] = unwrap(expected_tag))) =>
        LET r == unwrap(parsed)
            y == raw_packet[3] * 256 + raw_packet[2]
            x == raw_packet[5] * 256 + raw_packet[4]
        IN \E res \in Resolutions(raw_packet[1]) :
              /\ (r = Err("WrongResolution", "Y")) <=> (y \div (2 ^ res) /= 0)
              /\ (r = Err("WrongResolution", "X")) <=>
                    (y \div (2 ^ res) = 0 /\ x \div (2 ^ res) /= 0)
              /\ (r.kind = "Ok") <=>
                    (y \div (2 ^ res) = 0 /\ x \div (2 ^ res) = 0)
              /\ r.kind = "Ok" =>
                    LET p == unwrap(r.val)
                    IN /\ p.position.x \div (2 ^ p.resolution) = 0
                       /\ p.position.y \div (2 ^ p.resolution) = 0

(***************************************************************************)
(* C13 as stated: the frame of test_parse_release_upper_left, decoded with *)
(* the expected tag TouchEvent, gives touch_state IsTouching, position     *)
(* (313, 309) and resolution 12.                                           *)
(***************************************************************************)
C13_ReleaseFrameTouching ==
    (/\ raw_packet = RawPacket(<<2, 2, 53, 1, 57, 1>>)
     /\ expected_tag = Some(TouchEvent)
     /\ parsed /= None) =>
        parsed = Some(Ok([touch_state |-> IsTouching,
                          position |-> Point(313, 309),
                          resolution |-> 12]))

(***************************************************************************)
(* C14: in process_packets and in read_packets, a frame whose decoding     *)
(* fails ends the loop with that error in the same iteration: the handler  *)
(* is not called (no driver update, no batch, no write to the device, no   *)
(* message sent), and once a loop has returned an error no frame is read,  *)
(* decoded or handled any more.                                            *)
(***************************************************************************)
DecodeFails(p) == p.kind \in {"UnexpectedTag", "WrongResolution"}

C14_DecodeErrorEndsLoop ==
    [][/\ (/\ nread' = nread + 1
           /\ parsed' = Some(try_parse(raw_packet', Some(TouchEvent)))
           /\ DecodeFails(try_parse(raw_packet', Some(TouchEvent)))) =>
              /\ loop_error' = parsed'
              /\ IF reader = "running" THEN reader' = "failed" ELSE status' = "decode_error"
              /\ UNCHANGED <<state, events, vm, frames, out, rx_packet>>
       /\ loop_error /= None =>
              /\ UNCHANGED <<nread, raw_packet, parsed, loop_error>>
              /\ UNCHANGED <<state, events, vm, frames, out>>
              /\ Len(rx_packet') <= Len(rx_packet)
      ]_vars

\* the reader thread has sent a packet and ended on the next frame, which
\* carries a foreign tag
C14_Witness ==
    /\ reader = "failed"
    /\ nread = 2
    /\ Len(rx_packet) = 1
    /\ raw_packet[0] = 170
    /\ loop_error = Some(Err("UnexpectedTag", 170))

(***************************************************************************)
(* C15: the calibration state moves only Stage0 -> Stage1 -> Stage2 ->     *)
(* Stage3 -> Finished.  A packet advances the stage by one exactly when    *)
(* its touch flag is not-touching while the stored touch state is          *)
(* IsTouching, and leaves it unchanged otherwise; an advance keeps the     *)
(* coordinates captured so far and appends the new one; Finished is        *)
(* reached from Stage3 only, and in Finished no packet changes the state   *)
(* or its calibration_points.                                              *)
(***************************************************************************)
StageNum(st) == IF st.kind = "Finished" THEN 4 ELSE Len(st.stage)

\* this step is Calibrator::process_packet on the oldest message
Receives ==
    /\ calibrator_window = "Running"
    /\ app_pc = "idle"
    /\ rx_packet /= << >>
    /\ rx_packet' = Tail(rx_packet)

C15_StageProgression ==
    [][/\ Receives =>
            LET pre == calibrator.state
                post == calibrator'.state
                release == /\ pre.kind = "Ongoing"
                           /\ pre.touch_state = IsTouching
                           /\ Head(rx_packet).touch_state = NotTouching
            IN /\ StageNum(post) = IF release THEN StageNum(pre) + 1 ELSE StageNum(pre)
               /\ pre.kind = "Finished" => post = pre
               /\ (pre.kind = "Ongoing" /\ ~release) => post.stage = pre.stage
               /\ (release /\ StageNum(pre) < 3) =>
                     /\ post.kind = "Ongoing"
                     /\ post.stage = Append(pre.stage, unwrap(last_capture').coord)
               /\ (release /\ StageNum(pre) = 3) => post.kind = "Finished"
       /\ ~Receives =>
            \/ calibrator'.state = calibrator.state
            \/ calibrator'.state = CalibrationState_start
      ]_vars

\* the fourth release has just been processed
C15_Witness ==
    /\ calibrator.state.kind = "Finished"
    /\ last_capture /= None
    /\ Len(unwrap(last_capture).samples) = 2

(***************************************************************************)
(* C16 as stated: when a stage's representative coordinate is computed,    *)
(* the touch cloud holds exactly the positions of the samples of the       *)
(* current stage whose touch flag is touching, in arrival order.           *)
(***************************************************************************)
RECURSIVE TouchingPositions(_)
TouchingPositions(samples) ==
    IF samples = << >> THEN << >>
    ELSE IF Head(samples).touch_state = IsTouching
    THEN <<Head(samples).position>> \o TouchingPositions(Tail(samples))
    ELSE TouchingPositions(Tail(samples))

C16_CloudOfTouchingSamples ==
    last_capture /= None =>
        unwrap(last_capture).cloud = TouchingPositions(unwrap(last_capture).samples)

(***************************************************************************)
(* C17: on the fourth capture the solver averages the X of c0, c1 and of   *)
(* c2, c3 and the Y of c0, c2 and of c1, c3; per axis the lower end of the *)
(* Finished box and its upper end sum to v0 + v1, and one of them is       *)
(* v0 * 17/14 - v1 * 3/14 (o = 0.15) up to the truncation of each of the   *)
(* two products to an integer; the box is normalized.                      *)
(***************************************************************************)
C17_SolverBox ==
    (solver_in /= << >> /\ calibrator.state.kind = "Finished") =>
        LET c0 == solver_in[1]
            c1 == solver_in[2]
            c2 == solver_in[3]
            c3 == solver_in[4]
            x0 == (c0.x + c1.x) \div 2
            x1 == (c2.x + c3.x) \div 2
            y0 == (c0.y + c2.y) \div 2
            y1 == (c1.y + c3.y) \div 2
            box == calibrator.state.calibration_points
            AxisOK(v0, v1, lo, hi) ==
                /\ lo <= hi
                /\ lo + hi = v0 + v1
                /\ \E min \in {lo, hi} : Abs(14 * min - (17 * v0 - 3 * v1)) <= 14
        IN /\ AxisOK(x0, x1, box.x1, box.x2)
           /\ AxisOK(y0, y1, box.y1, box.y2)

\* a session captured right to left and bottom to top, so that the solved
\* minimum is the upper end of the box on both axes
C17_Witness ==
    /\ solver_in /= << >>
    /\ calibrator.state.kind = "Finished"
    /\ solver_in[1].x + solver_in[2].x > solver_in[3].x + solver_in[4].x + 4
    /\ solver_in[1].y + solver_in[3].y > solver_in[2].y + solver_in[4].y + 4
    /\ solver_in[1].x /= solver_in[2].x
    /\ calibrator.state.calibration_points.x1 < calibrator.state.calibration_points.x2

(***************************************************************************)
(* C18: when the four coordinates are the points of a target box B at the  *)
(* offset 0.15 and at 0.85 on each axis, every corner coordinate of the    *)
(* solved box is within 3 device units of B's.                             *)
(***************************************************************************)
C18_SolveRoundTrip ==
    \A B \in TargetBoxes :
        (calibrator.state.kind = "Finished" /\ solver_in = TargetCaptures(B)) =>
            LET box == calibrator.state.calibration_points
            IN /\ Abs(box.x1 - B.x1) <= 3
               /\ Abs(box.y1 - B.y1) <= 3
               /\ Abs(box.x2 - B.x2) <= 3
               /\ Abs(box.y2 - B.y2) <= 3

C18_Witness ==
    /\ calibrator.state.kind = "Finished"
    /\ solver_in = TargetCaptures(AABB_new(7, 300, 16380, 3800))
    /\ calibrator.state.calibration_points.x2 > 16000

(***************************************************************************)
(* C19 as stated: a solved box of zero length on the X or the Y axis is    *)
(* never returned by the calibrator as Finish(Some(box)) and never stored  *)
(* into the configuration.                                                 *)
(***************************************************************************)
C19_DegenerateBoxNotAccepted ==
    /\ response /= None =>
          /\ unwrap(response).x1 < unwrap(response).x2
          /\ unwrap(response).y1 < unwrap(response).y2
    /\ current_config.common.calibration_points.x1 < current_config.common.calibration_points.x2
    /\ current_config.common.calibration_points.y1 < current_config.common.calibration_points.y2

(***************************************************************************)
(* C20 as stated: calibration_points of the configuration changes only in  *)
(* a step that stores the box of a Finished session the operator accepted. *)
(***************************************************************************)
C20_ChangesOnlyOnAccept ==
    [][current_config'.common.calibration_points /= current_config.common.calibration_points
          => /\ app_pc = "finish"
             /\ response /= None
             /\ calibrator.state.kind = "Finished"]_vars

(***************************************************************************)
(* C20, amended: the configuration changes only in a step that stores the  *)
(* box of a Finished session the operator accepted with Enter, and then    *)
(* calibration_points becomes exactly that box and no other field changes, *)
(* or in a step of the main view that resets the configuration to the      *)
(* original one (R).  A session yields Some(box) only when it is Finished  *)
(* and the box is its solved box; a session left with Escape, or while     *)
(* Ongoing, yields no box and leaves the configuration as it was.          *)
(***************************************************************************)
C20_ChangesOnAcceptOrReset ==
    [][/\ current_config' /= current_config =>
             \/ /\ app_pc = "finish"
                /\ response /= None
                /\ calibrator.state.kind = "Finished"
             \/ /\ calibrator_window = "Deactivated"
                /\ app_pc = "idle"
                /\ current_config' = original_config
       /\ (app_pc = "finish" /\ app_pc' /= "finish") =>
             current_config' =
                IF response /= None
                THEN [current_config EXCEPT
                         !.common.calibration_points = calibrator.state.calibration_points]
                ELSE current_config
       /\ response' /= None =>
             /\ calibrator.state.kind = "Finished"
             /\ response' = Some(calibrator.state.calibration_points)
       /\ calibrator.state.kind = "Ongoing" => response' = None
      ]_vars

\* an accepted session has stored its solved box and the window is closed
C20_Witness ==
    /\ calibrator_window = "Deactivated"
    /\ app_pc = "idle"
    /\ current_config /= original_config
    /\ current_config.common.calibration_points.x1 < current_config.common.calibration_points.x2

(***************************************************************************)
(* C21: every AABB obtained from the constructors by any sequence of       *)
(* union, grow_to_point and translate has x1 <= x2 and y1 <= y2.           *)
(***************************************************************************)
C21_AABBOrdered ==
    /\ geo.aabb.x1 <= geo.aabb.x2 /\ geo.aabb.y1 <= geo.aabb.y2
    /\ geo.rhs.x1 <= geo.rhs.x2 /\ geo.rhs.y1 <= geo.rhs.y2

\* a box made from unordered corners and translated by (1, -3000): the sums
\* of its upper X end and of its lower Y end wrap and change the order
C21_Witness ==
    /\ geo.n = 2
    /\ ~geo.panic
    /\ geo.aabb = [x1 |-> -I32_MAX - 1, y1 |-> -3001, x2 |-> 2, y2 |-> I32_MAX - 2999]

(***************************************************************************)
(* C22 as stated: every Range made by Range::new, the From conversion,     *)
(* xrange or yrange has min <= max.                                        *)
(***************************************************************************)
C22_RangeOrdered == geo.range.min <= geo.range.max

(***************************************************************************)
(* C23: for a Range r and a value v with r.min <= v <= r.max,              *)
(* r.lerp(r.linear_factor(v)) differs from v by at most 2.                 *)
(***************************************************************************)
C23_LerpRoundTrip ==
    geo.out /= None => Abs(unwrap(geo.out).r - unwrap(geo.out).v) <= 2

\* a round trip that is off by the whole tolerance
C23_Witness ==
    /\ geo.out /= None
    /\ geo.range = Range_new(-16071, -3764)
    /\ unwrap(geo.out).v = -4928
    /\ unwrap(geo.out).r = -4926

\* the ABS_X and the ABS_Y value of the batch returned for frame n
MoveX(n) == out[n][Len(out[n]) - 2].value
MoveY(n) == out[n][Len(out[n]) - 1].value

C25_OutsideMapsOutside ==
    LET cal == monitor_cfg.calibration_points
        mon == monitor_cfg.monitor_area
        AxisOK(lo, hi, mlo, mhi, v, move) ==
            lo /= hi =>
                /\ move = lerp(Range_new(mlo, mhi), linear_factor(Range_new(lo, hi), v))
                /\ v = lo => move = mlo
                /\ v = hi => move = mhi
                /\ v < lo => move < mlo
                /\ v > hi => move > mhi
    IN \A n \in 1 .. Len(out) :
          /\ AxisOK(cal.x1, cal.x2, mon.x1, mon.x2, frames[n].packet.x, MoveX(n))
          /\ AxisOK(cal.y1, cal.y2, mon.y1, mon.y2, frames[n].packet.y, MoveY(n))

(***************************************************************************)
(* C25, amended: as above, except that a sample outside the calibration    *)
(* range yields a coordinate at or beyond monitor_area's bound on that     *)
(* side (each product of lerp is truncated toward zero, so a sample just   *)
(* outside can land on the bound itself); nothing clamps it, and a sample  *)
(* far outside yields a coordinate strictly outside.                       *)
(***************************************************************************)
C25_OutsideMapsAtOrBeyond ==
    LET cal == monitor_cfg.calibration_points
        mon == monitor_cfg.monitor_area
        AxisOK(lo, hi, mlo, mhi, v, move) ==
            lo /= hi =>
                /\ move = lerp(Range_new(mlo, mhi), linear_factor(Range_new(lo, hi), v))
                /\ v = lo => move = mlo
                /\ v = hi => move = mhi
                /\ v < lo => move <= mlo
                /\ v > hi => move >= mhi
                /\ v = 0 => move < mlo
                /\ v = 4095 => move > mhi
    IN \A n \in 1 .. Len(out) :
          /\ AxisOK(cal.x1, cal.x2, mon.x1, mon.x2, frames[n].packet.x, MoveX(n))
          /\ AxisOK(cal.y1, cal.y2, mon.y1, mon.y2, frames[n].packet.y, MoveY(n))

\* a sample one unit below the calibration minimum lands on the monitor
\* minimum, and a sample far above the maximum lands beyond the monitor maximum
C25_Witness ==
    /\ monitor_cfg.calibration_points.x1 /= monitor_cfg.calibration_points.x2
    /\ monitor_cfg.monitor_area.x1 = 0
    /\ Len(out) = 2
    /\ frames[1].packet.x = 299 /\ MoveX(1) = 0
    /\ frames[2].packet.x = 4095 /\ MoveX(2) > 1920

(***************************************************************************)
(* C26 as stated: every move emitted by update lies within screen_space,   *)
(* the absolute range of the virtual device, on its axis.                  *)
(***************************************************************************)
C26_MovesWithinScreenSpace ==
    \A n \in 1 .. Len(out) :
        /\ monitor_cfg.screen_space.x1 <= MoveX(n)
        /\ MoveX(n) <= monitor_cfg.screen_space.x2
        /\ monitor_cfg.screen_space.y1 <= MoveY(n)
        /\ MoveY(n) <= monitor_cfg.screen_space.y2

(***************************************************************************)
(* C27: while a calibrator is running, the consumer hands the messages to  *)
(* process_packet in exactly the order the reader thread sent them, none   *)
(* lost and none twice: the messages processed so far, followed by those   *)
(* still in the channel, are the messages sent, in the order of their      *)
(* sending.  draw is reached from the turn of the loop of process_input    *)
(* that finds the channel empty, so every message sent before that turn,   *)
(* those queued when the drain started among them, has been processed.     *)
(***************************************************************************)
SendNumbers(n) == [i \in 1 .. n |-> i]

C27_ChannelOrder ==
    calibrator_window = "Running" =>
        /\ Len(channel_log.queued) = Len(rx_packet)
        /\ channel_log.processed \o channel_log.queued = SendNumbers(channel_log.sent)
        /\ (app_pc = "idle" /\ rx_packet = << >>) =>
              channel_log.processed = SendNumbers(channel_log.sent)

\* two messages have been processed in two drains while a third waits in
\* the channel
C27_Witness ==
    /\ calibrator_window = "Running"
    /\ channel_log.processed = <<1, 2>>
    /\ channel_log.queued = <<3>>
    /\ Len(rx_packet) = 1
    /\ Len(stage_samples) = 2

(***************************************************************************)
(* C28 as stated: start_calibration is never executed while                *)
(* calibrator_window is Running: no call of App::update that starts a      *)
(* calibration starts a second one and ends in the panic 'calibrator       *)
(* already running', whatever keys are pressed and whether or not the      *)
(* calibration button is clicked in that frame.                            *)
(***************************************************************************)
C28_NoSecondStart ==
    [][~(/\ calibrator_window = "Deactivated"
         /\ calibrator_window' = "Running"
         /\ app_pc' = "panic")]_vars

(***************************************************************************)
(* C29 as stated: once Calibrator::exit has sent the exit signal to a live *)
(* reader thread, the reader eventually observes the signal and ends its   *)
(* loop, under fair scheduling, whatever the device delivers.              *)
(***************************************************************************)
C29_ObservesSignal ==
    (app_pc = "join" /\ ReaderAlive) ~> (reader = "exited")

(***************************************************************************)
(* C29, amended: once Calibrator::exit has sent the exit signal to a live  *)
(* reader thread, the thread eventually ends and join returns, under fair  *)
(* scheduling, whatever the device delivers: it ends by observing the      *)
(* signal at the top of its next turn of the loop, unless the turn under   *)
(* way ends it first with an error or with the decoder's panic.  The       *)
(* signal is tested before every poll, and no message is sent once the     *)
(* signal has been observed.                                               *)
(***************************************************************************)
C29_ReaderTerminates ==
    /\ (app_pc = "join" /\ ReaderAlive) ~> (app_pc = "join" /\ ~ReaderAlive)
    /\ (app_pc = "join") ~> (app_pc \in {"idle", "panic"})
    /\ [][/\ (reader /= "polling" /\ reader' = "polling") =>
                (reader = "running" /\ tx_exit = 0)
          /\ (reader = "exited" /\ reader' = "exited") =>
                channel_log'.sent = channel_log.sent]_vars

\* the exit signal was sent while the reader was past its test of the
\* signal, and the frame it then read ended the thread with a decode error
C29_Witness ==
    /\ app_pc = "join"
    /\ tx_exit = 1
    /\ reader = "failed"
    /\ loop_error /= None

(***************************************************************************)
(* C30 as stated: the reader thread stays alive until the exit signal has  *)
(* been sent: while a calibrator is running and Calibrator::exit has not   *)
(* yet sent the signal, the thread has not returned from read_packets, so  *)
(* try_recv cannot give Closed and the send of the signal cannot fail.     *)
(***************************************************************************)
C30_ReaderAliveUntilExit ==
    (calibrator_window = "Running" /\ app_pc \in {"idle", "finish"}) => ReaderAlive

(***************************************************************************)
(* C31 as stated: each of the resolutions 11, 12, 13 and 14 is produced by *)
(* try_parse for some value of frame[1] of a frame with in-range           *)
(* coordinates, and no decoded packet has a resolution outside             *)
(* {11, 12, 13, 14}.                                                       *)
(***************************************************************************)
\* the frame with the tag TouchEvent, the given frame[1] and x = y = 0
ZeroFrame(b) == RawPacket(<<TouchEvent, b, 0, 0, 0, 0>>)

C31_EveryResolutionProduced ==
    parsed /= None =>
        /\ unwrap(parsed).kind = "Ok" =>
              unwrap(unwrap(parsed).val).resolution \in {11, 12, 13, 14}
        /\ \A r \in {11, 12, 13, 14} : \E b \in 0 .. 255 :
              LET p == try_parse(ZeroFrame(b), expected_tag)
              IN p.kind = "Ok" /\ unwrap(p.val).resolution = r

\* the driver state after update number i
Post(i) == IF i < Len(frames) THEN frames[i + 1].pre ELSE state

\* the sample of update i lies farther than has_moved_threshold from the
\* stored origin; the stored start time is more than right_click_wait ago
DriftFromOrigin(i) ==
    euc_distance_to_sq(unwrap(frames[i].pre.touch_origin), Position(i))
        > HAS_MOVED_THRESHOLD * HAS_MOVED_THRESHOLD
HeldSinceStart(i) ==
    frames[i].now - unwrap(frames[i].pre.touch_start_time) > RIGHT_CLICK_THRESHOLD

(***************************************************************************)
(* C32: in an IsTouching -> IsTouching update with both flags clear the    *)
(* drift check comes before the hold-time check: a sample farther than     *)
(* has_moved_threshold from the origin sets has_moved and emits no button  *)
(* event, also when the elapsed time exceeds right_click_wait; otherwise   *)
(* an elapsed time above right_click_wait sets is_right_click and emits    *)
(* one right press.  With either flag set the update changes neither flag  *)
(* and emits no button event.                                              *)
(***************************************************************************)
C32_DriftBeforeHold ==
    \A n \in 1 .. Len(out) :
        IsHold(n) =>
            LET pre == frames[n].pre
                post == Post(n)
            IN IF ~pre.is_right_click /\ ~pre.has_moved
               THEN IF DriftFromOrigin(n)
                    THEN /\ post.has_moved
                         /\ ~post.is_right_click
                         /\ ButtonCount(out[n]) = 0
                    ELSE /\ ~post.has_moved
                         /\ post.is_right_click = HeldSinceStart(n)
                         /\ KeyCount(out[n], BTN_RIGHT, 1) = (IF HeldSinceStart(n) THEN 1 ELSE 0)
                         /\ ButtonCount(out[n]) = KeyCount(out[n], BTN_RIGHT, 1)
               ELSE /\ post.is_right_click = pre.is_right_click
                    /\ post.has_moved = pre.has_moved
                    /\ ButtonCount(out[n]) = 0

\* a touch whose second sample has drifted and is late and sets has_moved,
\* and whose third sample is late again and changes nothing
C32_Witness ==
    /\ Len(out) >= 3
    /\ IsStart(1) /\ IsHold(2) /\ IsHold(3)
    /\ DriftFromOrigin(2) /\ HeldSinceStart(2)
    /\ frames[3].pre.has_moved /\ ~frames[3].pre.is_right_click
    /\ HeldSinceStart(3) /\ ~DriftFromOrigin(3)
    /\ Post(3).has_moved /\ ~Post(3).is_right_click
    /\ ButtonCount(out[2]) = 0 /\ ButtonCount(out[3]) = 0

\* update i leaves touch_origin and touch_start_time as they were
KeepsOrigin(i) ==
    /\ Post(i).touch_origin = frames[i].pre.touch_origin
    /\ Post(i).touch_start_time = frames[i].pre.touch_start_time

\* in the touching updates the stored origin is the position of the first
\* sample of the touch and the stored start time its arrival
OriginIsFirstSample ==
    \A j \in 1 .. Len(frames) : \A i \in j .. Len(frames) :
        SameTouch(j, i) =>
            /\ Post(i).touch_origin = Some(Position(j))
            /\ Post(i).touch_start_time = Some(frames[j].now)

(***************************************************************************)
(* C33 as stated: touch_origin and touch_start_time are written only in    *)
(* the NotTouching -> IsTouching update: no other update changes them; so  *)
(* during a touch they are the position and the arrival of its first       *)
(* sample.                                                                 *)
(***************************************************************************)
C33_WrittenOnlyAtStart ==
    /\ \A n \in 1 .. Len(frames) : ~IsStart(n) => KeepsOrigin(n)
    /\ OriginIsFirstSample

(***************************************************************************)
(* C33, amended: touch_origin and touch_start_time are given a value only  *)
(* in the NotTouching -> IsTouching update (the position of its sample and *)
(* the time of its arrival), are left unchanged by every IsTouching ->     *)
(* IsTouching and NotTouching -> NotTouching update, and are cleared to    *)
(* None by the reset of the IsTouching -> NotTouching update; so during a  *)
(* touch drift is measured from the position of the first sample of the    *)
(* touch, not from the previous sample, and hold time from the first       *)
(* sample's arrival.                                                       *)
(***************************************************************************)
C33_OriginSetAtStartOnly ==
    /\ \A n \in 1 .. Len(frames) :
          /\ IsStart(n) => /\ Post(n).touch_origin = Some(Position(n))
                           /\ Post(n).touch_start_time = Some(frames[n].now)
          /\ IsRelease(n) => /\ Post(n).touch_origin = None
                             /\ Post(n).touch_start_time = None
          /\ (~IsStart(n) /\ ~IsRelease(n)) => KeepsOrigin(n)
    /\ OriginIsFirstSample
    /\ \A n \in 1 .. Len(out) :
          (IsHold(n) /\ ~frames[n].pre.is_right_click /\ ~frames[n].pre.has_moved) =>
              \E j \in 1 .. (n - 1) :
                  /\ SameTouch(j, n)
                  /\ Post(n).has_moved = Drifted(j, n)
                  /\ Post(n).is_right_click = (~Drifted(j, n) /\ Late(j, n))

\* the third sample of a touch is one unit from the second and farther than
\* the threshold from the first: it sets has_moved
C33_Witness ==
    /\ Len(out) >= 3
    /\ IsStart(1) /\ IsHold(2) /\ IsHold(3)
    /\ ~Drifted(1, 2) /\ ~Late(1, 2)
    /\ ~Drifted(2, 3) /\ Drifted(1, 3)
    /\ Position(2) /= Position(1)
    /\ Post(3).has_moved
    /\ Post(3).touch_origin = Some(Position(1))
    /\ Post(3).touch_start_time = Some(frames[1].now)

(***************************************************************************)
(* C34: is_right_click and has_moved are never both true.  Once a          *)
(* right-click has started in a touch, no later sample of that touch sets  *)
(* has_moved; once has_moved is set, is_right_click stays false until the  *)
(* touch ends.                                                             *)
(***************************************************************************)
C34_FlagsExclusive ==
    /\ ~(state.is_right_click /\ state.has_moved)
    /\ \A n \in 1 .. Len(frames) :
          /\ ~(frames[n].pre.is_right_click /\ frames[n].pre.has_moved)
          /\ (frames[n].packet.touch_state = IsTouching /\ frames[n].pre.is_right_click) =>
                (Post(n).is_right_click /\ ~Post(n).has_moved)
          /\ (frames[n].packet.touch_state = IsTouching /\ frames[n].pre.has_moved) =>
                (Post(n).has_moved /\ ~Post(n).is_right_click)

\* a right-click was started and the next sample of the touch lies farther
\* than the threshold from the origin
C34_Witness ==
    /\ Len(out) >= 3
    /\ IsStart(1) /\ IsHold(2) /\ IsHold(3)
    /\ frames[3].pre.is_right_click
    /\ Drifted(1, 3)
    /\ state.is_right_click /\ ~state.has_moved

(***************************************************************************)
(* C35: the assertion of TouchCloud::compute_touch_coord that the cloud is *)
(* not empty never fails, whatever packets calibrate_with_packet is fed in *)
(* whatever stage: process_packet never panics and every coordinate was    *)
(* computed from a cloud that is not empty; so also for a stage whose      *)
(* first packet is a release that follows the advance, with no touching    *)
(* sample of the stage before it.                                          *)
(***************************************************************************)
C35_CloudNeverEmpty ==
    /\ app_pc /= "panic"
    /\ last_capture /= None => Len(unwrap(last_capture).cloud) >= 1

\* a coordinate was computed in a stage whose first packet was a release
C35_Witness ==
    /\ last_capture /= None
    /\ unwrap(last_capture).samples[1].touch_state = NotTouching
    /\ Len(unwrap(last_capture).cloud) = Len(unwrap(last_capture).samples)
    /\ StageNum(calibrator.state) >= 2
    /\ app_pc /= "panic"

\* the least and the greatest coordinate of the points of a cloud
CloudXs(v) == {v[k].x : k \in 1 .. Len(v)}
CloudYs(v) == {v[k].y : k \in 1 .. Len(v)}
SetMin(S) == CHOOSE m \in S : \A e \in S : m <= e
SetMax(S) == CHOOSE m \in S : \A e \in S : m >= e

(***************************************************************************)
(* C36 as stated: r.min <= r.midpoint() <= r.max for every Range with      *)
(* non-negative endpoints; so the coordinate compute_touch_coord returns   *)
(* lies inside the bounding box of its cloud, and for a cloud whose points *)
(* all equal P it is P.                                                    *)
(***************************************************************************)
C36_MidpointInside ==
    last_capture /= None =>
        LET cap == unwrap(last_capture)
            rx == Range_new(SetMin(CloudXs(cap.cloud)), SetMax(CloudXs(cap.cloud)))
            ry == Range_new(SetMin(CloudYs(cap.cloud)), SetMax(CloudYs(cap.cloud)))
        IN /\ rx.min <= Range_midpoint(rx) /\ Range_midpoint(rx) <= rx.max
           /\ ry.min <= Range_midpoint(ry) /\ Range_midpoint(ry) <= ry.max
           /\ rx.min <= cap.coord.x /\ cap.coord.x <= rx.max
           /\ ry.min <= cap.coord.y /\ cap.coord.y <= ry.max
           /\ \A P \in {cap.cloud[1]} :
                 (\A k \in 1 .. Len(cap.cloud) : cap.cloud[k] = P) => cap.coord = P

\* the fold of compute_touch_coord over a cloud
CloudBox(v) == grow_fold(AABB_new_wh(v[1].x, v[1].y, 0, 0), v, 2)

\* the cloud with its point number k moved to the front, and reversed
MoveToFront(v, k) == <<v[k]>> \o SubSeq(v, 1, k - 1) \o SubSeq(v, k + 1, Len(v))
Reversed(v) == [k \in 1 .. Len(v) |-> v[Len(v) + 1 - k]]

(***************************************************************************)
(* C37: the fold of grow_to_point over the cloud, started from the         *)
(* zero-size box at the first point, is the smallest AABB that contains    *)
(* every point of the cloud: x1 and y1 are the least, x2 and y2 the        *)
(* greatest x and y of the cloud, in whatever order the points are;        *)
(* grow_to_point leaves a box unchanged when the point is inside it.  The  *)
(* coordinate returned is the midpoint of that box.                        *)
(***************************************************************************)
C37_SmallestBox ==
    last_capture /= None =>
        LET v == unwrap(last_capture).cloud
        IN \E abox \in {CloudBox(v)} :
              /\ abox = [x1 |-> SetMin(CloudXs(v)), y1 |-> SetMin(CloudYs(v)),
                         x2 |-> SetMax(CloudXs(v)), y2 |-> SetMax(CloudYs(v))]
              /\ \A k \in 1 .. Len(v) :
                    /\ CloudBox(MoveToFront(v, k)) = abox
                    /\ grow_to_point(abox, v[k]) = abox
              /\ CloudBox(Reversed(v)) = abox
              /\ unwrap(last_capture).coord = AABB_midpoint(abox)

\* a cloud of three different points whose first lies strictly between the
\* other two on both axes
C37_Witness ==
    /\ last_capture /= None
    /\ LET v == unwrap(last_capture).cloud
       IN /\ Len(v) = 3
          /\ v[2].x > v[1].x /\ v[1].x > v[3].x
          /\ v[2].y > v[1].y /\ v[1].y > v[3].y
          /\ CloudBox(v) = [x1 |-> v[3].x, y1 |-> v[3].y, x2 |-> v[2].x, y2 |-> v[2].y]

\* box a lies inside box u
Inside(a, u) == u.x1 <= a.x1 /\ a.x2 <= u.x2 /\ u.y1 <= a.y1 /\ a.y2 <= u.y2

(***************************************************************************)
(* C38: for normalized boxes a and b, a.union(b) is the smallest AABB that *)
(* contains both: it contains every corner of a and of b and each of its   *)
(* four sides is a side of a or of b; union is commutative and             *)
(* associative, and a.union(a) = a.                                        *)
(***************************************************************************)
C38_UnionSmallest ==
    LET a == geo.aabb
        b == geo.rhs
        u == union(a, b)
    IN /\ a.x1 <= a.x2 /\ a.y1 <= a.y2 /\ b.x1 <= b.x2 /\ b.y1 <= b.y2
       /\ Inside(a, u) /\ Inside(b, u)
       /\ u.x1 \in {a.x1, b.x1} /\ u.x2 \in {a.x2, b.x2}
       /\ u.y1 \in {a.y1, b.y1} /\ u.y2 \in {a.y2, b.y2}
       /\ u = union(b, a)
       /\ union(a, a) = a /\ union(b, b) = b
       /\ \A t \in GeoTuples :
             LET c == AABB_from(t)
             IN /\ union(union(a, b), c) = union(a, union(b, c))
                /\ union(union(c, a), b) = union(c, union(a, b))

\* the union of two boxes neither of which contains the other has been
\* taken: it differs from both
C38_Witness ==
    /\ geo.n = 3
    /\ geo.rhs = AABB_new(0, 0, 1920, 1080)
    /\ geo.aabb = [x1 |-> 0, y1 |-> 0, x2 |-> 3800, y2 |-> 3800]
    /\ geo.aabb = union(AABB_new(3800, 3800, 300, 300), geo.rhs)

(***************************************************************************)
(* C39 as stated: process_packets never returns Ok and ends only by        *)
(* returning an error (of the read, the clock, the decoder or the          *)
(* handler); at the end of the input, also exactly on a frame boundary, it *)
(* ends with an I/O error, and every complete frame before the end has     *)
(* been passed to the handler, in order.                                   *)
(***************************************************************************)
C39_EndsOnlyWithError ==
    calibrator_window = "Deactivated" =>
        /\ status /= "running" =>
              /\ loop_error /= None
              /\ unwrap(loop_error).kind \in
                    {"IOError", "TimeError", "UnexpectedTag", "WrongResolution"}
        /\ (status = "io_error" /\ vm = Flatten(Len(out))) =>
              /\ loop_error = Some(Err("IOError", 0))
              /\ Len(frames) = nread
              /\ Len(out) = nread
              /\ \A n \in 1 .. (nread - 1) : frames[n].now < frames[n + 1].now

(***************************************************************************)
(* C40 as stated: when the right-click-wait text field changes,            *)
(* right_click_wait_ms becomes the unsigned integer parsed from the text   *)
(* of the right-click-wait field and stays as it was when that text does   *)
(* not parse; the content of the has-moved-threshold field has no effect   *)
(* on right_click_wait_ms.                                                 *)
(***************************************************************************)
C40_WaitParsedFromItsField ==
    [][/\ input'.right_click_wait /= input.right_click_wait =>
             current_config'.common.right_click_wait_ms =
                 IF parse_u64(input'.right_click_wait) /= None
                 THEN unwrap(parse_u64(input'.right_click_wait))
                 ELSE current_config.common.right_click_wait_ms
       /\ input'.has_moved /= input.has_moved =>
             current_config'.common.right_click_wait_ms =
                 current_config.common.right_click_wait_ms
      ]_vars

====
